---- MODULE Spec2Model ----
(***************************************************************************)
(* Model of the Paikin-Tal placement engine                                *)
(* (src/paikin_tal_solver/paikin_tal_solver/solver.py).                    *)
(*                                                                         *)
(* One variable per field of PaikinTalSolver, one action per step of       *)
(* run(): the seed placement, the selection of the next piece, the spawn   *)
(* of a new board, the placement of a piece, and the end of the run.       *)
(* The inter-piece distance object (the oracle), the puzzle pieces, numpy  *)
(* indexing and the best-buddy accuracy collection are collaborators of    *)
(* the solver; they are modelled by what the solver relies on.             *)
(***************************************************************************)
EXTENDS Integers, Sequences, FiniteSets, Bags, TLC

\* ------------------------------------------------------------------ bounds
\* Largest number of pieces handed to the solver.
NumPieces == 4
\* The heap housekeeping thresholds (10^6 heap entries and 100 placements in
\* the source, solver.py:143-144), scaled to the size of the model.
CleanHeapSize == 2
CleanHeapFrequency == 1

\* ------------------------------------------------------- program constants
\* PaikinTalSolver._UNPLACED_PIECE_ID
UNPLACED_PIECE_ID == -1
\* Python's None for a piece's puzzle_id and for the housekeeping mark.
NoneValue == -1
\* DEFAULT_MINIMUM_MUTUAL_COMPATIBILITY_FOR_NEW_BOARD (0.5), in units of 1/2.
DEFAULT_MINIMUM_MUTUAL_COMPATIBILITY_FOR_NEW_BOARD == 1

VARIABLES
    cfg,                    \* constructor arguments and class-level flags
    oracle,                 \* the inter-piece distance data of this dataset
    recalculated,           \* oracle state: compatibilities were recalculated
    numb_pieces,            \* len(self._pieces)
    pieces,                 \* per piece: puzzle_id, location, rotation
    piece_placed,           \* self._piece_placed
    numb_unplaced_pieces,   \* self._numb_unplaced_pieces
    open_locations,         \* self._open_locations
    piece_locations,        \* self._piece_locations (one grid per board)
    placed_puzzle_dimensions, \* self._placed_puzzle_dimensions
    best_buddy_accuracy,    \* self._best_buddy_accuracy
    best_buddies_pool,      \* self._best_buddies_pool
    best_buddy_open_slot_heap, \* self._best_buddy_open_slot_heap
    numb_puzzles,           \* self._numb_puzzles
    last_best_buddy_heap_housekeeping, \* self._last_best_buddy_heap_housekeeping
    next_piece,             \* the local next_piece of run(): <<>> or <<info>>
    fault,                  \* the exception that ended the run, "" if none
    pc,                     \* position in run()
    ctl                     \* the MultiPuzzleSolver object and its position

vars == <<cfg, oracle, recalculated, numb_pieces, pieces, piece_placed,
          numb_unplaced_pieces, open_locations, piece_locations,
          placed_puzzle_dimensions, best_buddy_accuracy, best_buddies_pool,
          best_buddy_open_slot_heap, numb_puzzles,
          last_best_buddy_heap_housekeeping, next_piece, fault, pc, ctl>>

\* ------------------------------------------------------------ puzzle piece
\* PuzzlePieceSide: top = 0, right = 1, bottom = 2, left = 3.
AllSides == <<0, 1, 2, 3>>

ComplementarySide(side) == (side + 2) % 4

\* InterPieceDistance.get_valid_neighbor_sides: a type 1 puzzle has no
\* rotation, so only the complementary side can face a neighbor's side.
GetValidNeighborSides(puzzle_type, neighbor_side) ==
    IF puzzle_type = 1 THEN <<ComplementarySide(neighbor_side)>> ELSE AllSides

\* Row and column offset of the cell in board direction d.
DirectionOffset(d) ==
    CASE d = 0 -> <<-1, 0>>
      [] d = 1 -> <<0, 1>>
      [] d = 2 -> <<1, 0>>
      [] d = 3 -> <<0, -1>>

\* PuzzlePiece.get_neighbor_locations_and_sides: the four neighboring
\* locations (top, right, bottom, left of the board) with the side of the
\* piece that faces each; rotation counts quarter turns.
GetNeighborLocationsAndSides(location, rotation) ==
    [i \in 1..4 |->
        [loc  |-> <<location[1] + DirectionOffset(i - 1)[1],
                    location[2] + DirectionOffset(i - 1)[2]>>,
         side |-> ((i - 1) - rotation + 4) % 4]]

\* PuzzlePiece.side_adjacent_to_location: the side of the piece at
\* piece_location that faces location, NoneValue when it is not adjacent.
SideAdjacentToLocation(piece_location, rotation, location) ==
    LET nb == GetNeighborLocationsAndSides(piece_location, rotation)
        hit == {i \in 1..4 : nb[i].loc = location}
    IN  IF hit = {} THEN NoneValue ELSE nb[CHOOSE i \in hit : TRUE].side

\* PuzzlePiece.set_placed_piece_rotation: the rotation that makes next_side
\* of the placed piece face neighbor_side of a neighbor with the given
\* rotation.
PlacedPieceRotation(next_side, neighbor_side, neighbor_rotation) ==
    (neighbor_rotation + neighbor_side + 2 - next_side + 4) % 4

\* ------------------------------------------------------------------- numpy
\* An index of an n x n array: -n .. n-1 is accepted, a negative index counts
\* from the end, anything else raises IndexError.
InGrid(n, location) ==
    /\ location[1] >= -n /\ location[1] < n
    /\ location[2] >= -n /\ location[2] < n

GridCell(n, location) == <<location[1] % n, location[2] % n>>

GridCells(n) == (0..(n - 1)) \X (0..(n - 1))

\* ------------------------------------------------------------------ oracle
\* The dataset behind InterPieceDistance.  Pieces right_step apart are best
\* buddies on their right/left sides, pieces down_step apart on their
\* bottom/top sides (0: none on that axis); the pieces in loners have no best
\* buddy and the lowest compatibility with every piece.  With a width above
\* 0 the pieces are the cells of an image of that many columns, numbered row
\* by row, and right/left best buddies are in the same row.
BestBuddyOf(o, n, p, side) ==
    LET step == IF side = 1 \/ side = 3 THEN o.right_step ELSE o.down_step
        q    == IF side = 1 \/ side = 2 THEN p + step ELSE p - step
    IN  IF /\ step > 0 /\ q >= 0 /\ q < n /\ p \notin o.loners /\ q \notin o.loners
           /\ ((o.width > 0 /\ (side = 1 \/ side = 3)) => p \div o.width = q \div o.width)
        THEN <<q, ComplementarySide(side)>>
        ELSE <<>>

\* InterPieceDistance.best_buddies(piece, side): the list of (id, side).
BestBuddies(o, n, p, side) ==
    IF BestBuddyOf(o, n, p, side) = <<>> THEN <<>> ELSE <<BestBuddyOf(o, n, p, side)>>

\* InterPieceDistance.get_total_best_buddy_count
TotalBestBuddyCount(o, n) ==
    Cardinality({ps \in (0..(n - 1)) \X (0..3) : BestBuddyOf(o, n, ps[1], ps[2]) # <<>>})

\* InterPieceDistance.mutual_compatibility, in units of 1/2; symmetric in
\* its two (piece, side) arguments.  A recalculation of the remaining
\* compatibilities raises every score by the dataset's recalc_gain, and two
\* pieces that are a favoured pair of the dataset score 1/2 more on any sides.
MutualCompatibility(o, n, recalc, p, p_side, q, q_side) ==
    (IF p \in o.loners \/ q \in o.loners THEN 0 ELSE 1)
    + (IF BestBuddyOf(o, n, p, p_side) = <<q, q_side>> THEN o.bonus ELSE 0)
    + (IF recalc THEN o.recalc_gain ELSE 0)
    + (IF {p, q} \in o.favoured THEN 1 ELSE 0)

\* InterPieceDistance.next_starting_piece(piece_placed): the first unplaced
\* piece in the dataset's seed order, which starts at first_seed.
RECURSIVE NextStartingPieceFrom(_, _, _, _)
NextStartingPieceFrom(o, n, placed, k) ==
    IF k >= n THEN NoneValue
    ELSE IF ~placed[(o.first_seed + k) % n] THEN (o.first_seed + k) % n
    ELSE NextStartingPieceFrom(o, n, placed, k + 1)

NextStartingPiece(o, n, placed) == NextStartingPieceFrom(o, n, placed, 0)

\* -------------------------------------------------------------------- heapq
\* Mutant of BestBuddyHeapInfo.__cmp__: the operands are not swapped, which
\* makes the heap a minimum heap.
HeapInfoLessThanUnswapped(x, y) == x.mutual_compatibility < y.mutual_compatibility

\* BestBuddyHeapInfo.__cmp__ swaps its operands, so that x < y exactly when x
\* has the higher mutual compatibility: heapq's minimum heap is a maximum
\* heap.  Nothing else takes part in the comparison.
HeapInfoLessThan(x, y) == x.mutual_compatibility > y.mutual_compatibility

\* heapq._siftdown(heap, startpos, pos); positions count from 0 as in Python.
RECURSIVE SiftDownLoop(_, _, _, _)
SiftDownLoop(heap, newitem, startpos, pos) ==
    IF pos > startpos
    THEN LET parentpos == (pos - 1) \div 2
             parent    == heap[parentpos + 1]
         IN  IF HeapInfoLessThan(newitem, parent)
             THEN SiftDownLoop([heap EXCEPT ![pos + 1] = parent], newitem, startpos, parentpos)
             ELSE [heap EXCEPT ![pos + 1] = newitem]
    ELSE [heap EXCEPT ![pos + 1] = newitem]

SiftDown(heap, startpos, pos) == SiftDownLoop(heap, heap[pos + 1], startpos, pos)

\* heapq._siftup(heap, pos): bubble the smaller child up until a leaf is hit,
\* then sift the displaced item down from there.
RECURSIVE SiftUpLoop(_, _, _, _)
SiftUpLoop(heap, newitem, startpos, pos) ==
    LET endpos   == Len(heap)
        leftpos  == 2 * pos + 1
        rightpos == leftpos + 1
        childpos == IF rightpos < endpos
                       /\ ~HeapInfoLessThan(heap[leftpos + 1], heap[rightpos + 1])
                    THEN rightpos ELSE leftpos
    IN  IF leftpos < endpos
        THEN SiftUpLoop([heap EXCEPT ![pos + 1] = heap[childpos + 1]], newitem, startpos, childpos)
        ELSE SiftDownLoop(heap, newitem, startpos, pos)

SiftUp(heap, pos) == SiftUpLoop(heap, heap[pos + 1], pos, pos)

\* heapq.heappush
HeapPush(heap, item) == SiftDown(Append(heap, item), 0, Len(heap))

\* heapq.heappop on a non-empty heap: the popped item and the heap left.
HeapPop(heap) ==
    LET lastelt == heap[Len(heap)]
        rest    == SubSeq(heap, 1, Len(heap) - 1)
    IN  IF rest = <<>>
        THEN [item |-> lastelt, heap |-> rest]
        ELSE [item |-> rest[1], heap |-> SiftUp([rest EXCEPT ![1] = lastelt], 0)]

\* heapq.heapify: sift up every parent position, last parent first.
RECURSIVE HeapifyFrom(_, _)
HeapifyFrom(heap, i) ==
    IF i < 0 THEN heap ELSE HeapifyFrom(SiftUp(heap, i), i - 1)

Heapify(heap) == HeapifyFrom(heap, (Len(heap) \div 2) - 1)

\* ---------------------------------------------------------- solver state
\* The solver object as one record, so that the methods below can be
\* composed in the order run() calls them.  fault names the exception that
\* was raised; once it is set, the statements after it do not run.
Self ==
    [pieces |-> pieces,
     piece_placed |-> piece_placed,
     numb_unplaced_pieces |-> numb_unplaced_pieces,
     open_locations |-> open_locations,
     piece_locations |-> piece_locations,
     placed_puzzle_dimensions |-> placed_puzzle_dimensions,
     best_buddy_accuracy |-> best_buddy_accuracy,
     best_buddies_pool |-> best_buddies_pool,
     best_buddy_open_slot_heap |-> best_buddy_open_slot_heap,
     numb_puzzles |-> numb_puzzles,
     last_best_buddy_heap_housekeeping |-> last_best_buddy_heap_housekeeping,
     recalculated |-> recalculated,
     fault |-> fault]

Raise(s, exception) == IF s.fault = "" THEN [s EXCEPT !.fault = exception] ELSE s

\* self._piece_locations[puzzle_id][location], for a location inside the grid
PieceAt(s, puzzle_id, location) ==
    s.piece_locations[puzzle_id + 1][GridCell(numb_pieces, location)]

\* Mutant of _check_board_dimensions: only the span from the top-left corner
\* to the location is tested, not the span from the location to the
\* bottom-right corner.
CheckBoardDimensionsFromTopLeftOnly(s, puzzle_id, location) ==
    LET actual_dimensions == cfg.fixed_puzzle_dimensions
        puzzle_dimensions == s.placed_puzzle_dimensions[puzzle_id + 1]
    IN  IF actual_dimensions = <<>> THEN TRUE
        ELSE \A dim \in 1..Len(actual_dimensions) :
                ~(location[dim] - puzzle_dimensions.top_left[dim] + 1 > actual_dimensions[dim])

\* PaikinTalSolver._check_board_dimensions
CheckBoardDimensions(s, puzzle_id, location) ==
    LET actual_dimensions == cfg.fixed_puzzle_dimensions
        puzzle_dimensions == s.placed_puzzle_dimensions[puzzle_id + 1]
    IN  IF actual_dimensions = <<>> THEN TRUE
        ELSE \A dim \in 1..Len(actual_dimensions) :
                /\ ~(location[dim] - puzzle_dimensions.top_left[dim] + 1 > actual_dimensions[dim])
                /\ ~(puzzle_dimensions.bottom_right[dim] - location[dim] + 1 > actual_dimensions[dim])

\* Mutant of _is_slot_open: the test of the cell's occupancy is left out.
IsSlotOpenIgnoringOccupancy(s, puzzle_id, location) ==
    CheckBoardDimensions(s, puzzle_id, location)

\* PaikinTalSolver._is_slot_open, for a location inside the grid
IsSlotOpen(s, puzzle_id, location) ==
    /\ PieceAt(s, puzzle_id, location) = UNPLACED_PIECE_ID
    /\ CheckBoardDimensions(s, puzzle_id, location)

\* Mutant of _mark_piece_placed: the count of unplaced pieces is not updated.
MarkPiecePlacedWithoutCount(s, piece_id) ==
    [s EXCEPT !.piece_placed[piece_id] = TRUE]

\* PaikinTalSolver._mark_piece_placed
MarkPiecePlaced(s, piece_id) ==
    [s EXCEPT !.piece_placed[piece_id] = TRUE,
              !.numb_unplaced_pieces = @ - 1]

\* Mutant of _initialize_best_buddy_pool_and_heap: the pool is emptied and
\* the heap is kept.
InitializeBestBuddyPoolOnly(s) ==
    [s EXCEPT !.best_buddies_pool = {},
              !.last_best_buddy_heap_housekeeping = s.numb_unplaced_pieces]

\* PaikinTalSolver._initialize_best_buddy_pool_and_heap
InitializeBestBuddyPoolAndHeap(s) ==
    [s EXCEPT !.best_buddies_pool = {},
              !.best_buddy_open_slot_heap = <<>>,
              !.last_best_buddy_heap_housekeeping = s.numb_unplaced_pieces]

\* Mutant of _remove_open_slot: the loop stops at the first entry it deletes.
RemoveOpenSlotFirstOnly(s, puzzle_id, location) ==
    LET matches == {i \in 1..Len(s.open_locations) :
                        /\ s.open_locations[i].puzzle_id = puzzle_id
                        /\ s.open_locations[i].location = location}
        first   == CHOOSE i \in matches : \A j \in matches : i <= j
    IN  IF matches = {} THEN s
        ELSE [s EXCEPT !.open_locations =
                [k \in 1..(Len(@) - 1) |-> IF k < first THEN @[k] ELSE @[k + 1]]]

\* PaikinTalSolver._remove_open_slot: every entry with that puzzle and
\* location is deleted.
RemoveOpenSlot(s, puzzle_id, location) ==
    [s EXCEPT !.open_locations =
        SelectSeq(@, LAMBDA slot : ~(slot.puzzle_id = puzzle_id /\ slot.location = location))]

\* PaikinTalSolver._remove_best_buddy_from_pool: the assertion, then the del
\* (which raises KeyError on a missing key when the assertion is off).
RemoveBestBuddyFromPool(s, piece_id) ==
    IF piece_id \notin s.best_buddies_pool
    THEN Raise(s, IF cfg.perform_assertion_check THEN "AssertionError" ELSE "KeyError")
    ELSE [s EXCEPT !.best_buddies_pool = @ \ {piece_id}]

\* PaikinTalSolver._updated_puzzle_dimensions
RECURSIVE UpdateDimension(_, _, _)
UpdateDimension(board_dimensions, location, dim) ==
    IF dim > 2 THEN board_dimensions
    ELSE UpdateDimension(
            IF board_dimensions.top_left[dim] > location[dim]
            THEN [board_dimensions EXCEPT !.top_left[dim] = location[dim]]
            ELSE IF board_dimensions.bottom_right[dim] < location[dim]
            THEN [board_dimensions EXCEPT !.bottom_right[dim] = location[dim]]
            ELSE board_dimensions,
            location, dim + 1)

UpdatedPuzzleDimensions(s, puzzle_id, placed_piece_location) ==
    LET board_dimensions == s.placed_puzzle_dimensions[puzzle_id + 1]
    IN  IF cfg.perform_assertion_check
           /\ ~(/\ board_dimensions.top_left[1] <= board_dimensions.bottom_right[1]
                /\ board_dimensions.top_left[2] <= board_dimensions.bottom_right[2])
        THEN Raise(s, "AssertionError")
        ELSE [s EXCEPT !.placed_puzzle_dimensions[puzzle_id + 1] =
                            UpdateDimension(board_dimensions, placed_piece_location, 1)]

\* --------------------------------------------------- best buddy accuracy
\* BestBuddyAccuracy keeps three dictionaries keyed by (piece, side).
NewBestBuddyAccuracy == [open |-> {}, wrong |-> {}, correct |-> {}]

AddOpenBestBuddy(s, puzzle_id, piece_id, side) ==
    [s EXCEPT !.best_buddy_accuracy[puzzle_id + 1].open = @ \cup {<<piece_id, side>>}]

DeleteOpenBestBuddy(s, puzzle_id, piece_id, side) ==
    [s EXCEPT !.best_buddy_accuracy[puzzle_id + 1].open = @ \ {<<piece_id, side>>}]

AddWrongBestBuddy(s, puzzle_id, piece_id, side) ==
    [s EXCEPT !.best_buddy_accuracy[puzzle_id + 1].wrong = @ \cup {<<piece_id, side>>}]

AddCorrectBestBuddy(s, puzzle_id, piece_id, side) ==
    [s EXCEPT !.best_buddy_accuracy[puzzle_id + 1].correct = @ \cup {<<piece_id, side>>}]

\* Mutant of the accuracy update: when the placed piece's best buddy is
\* already on a board, only the placed piece's side is recorded as wrong.
AccuracyOfPlacedPieceOneSided(s, puzzle_id, placed_piece_id, placed_side, is_neighbor_open) ==
    LET placed_piece_bb_info == BestBuddies(oracle, numb_pieces, placed_piece_id, placed_side)
        placed_piece_bb_id   == placed_piece_bb_info[1][1]
        placed_piece_bb_side == placed_piece_bb_info[1][2]
        bb_puzzle_id         == s.pieces[placed_piece_bb_id].puzzle_id
    IN  IF placed_piece_bb_info = <<>> THEN s
        ELSE IF s.piece_placed[placed_piece_bb_id]
        THEN AddWrongBestBuddy(
                DeleteOpenBestBuddy(s, bb_puzzle_id, placed_piece_bb_id, placed_piece_bb_side),
                bb_puzzle_id, placed_piece_id, placed_side)
        ELSE IF is_neighbor_open
        THEN AddOpenBestBuddy(s, puzzle_id, placed_piece_id, placed_side)
        ELSE s

\* The part of the loop body of _update_best_buddy_accuracy that handles the
\* placed piece's own best buddy (solver.py:721-741).
AccuracyOfPlacedPiece(s, puzzle_id, placed_piece_id, placed_side, is_neighbor_open) ==
    LET placed_piece_bb_info == BestBuddies(oracle, numb_pieces, placed_piece_id, placed_side)
        placed_piece_bb_id   == placed_piece_bb_info[1][1]
        placed_piece_bb_side == placed_piece_bb_info[1][2]
        bb_puzzle_id         == s.pieces[placed_piece_bb_id].puzzle_id
    IN  IF placed_piece_bb_info = <<>> THEN s
        ELSE IF s.piece_placed[placed_piece_bb_id]
        THEN AddWrongBestBuddy(
                AddWrongBestBuddy(
                    DeleteOpenBestBuddy(s, bb_puzzle_id, placed_piece_bb_id, placed_piece_bb_side),
                    bb_puzzle_id, placed_piece_bb_id, placed_piece_bb_side),
                bb_puzzle_id, placed_piece_id, placed_side)
        ELSE IF is_neighbor_open
        THEN AddOpenBestBuddy(s, puzzle_id, placed_piece_id, placed_side)
        ELSE s

\* One iteration of the loop of _update_best_buddy_accuracy, for the i-th
\* neighboring location of the placed piece.
AccuracyOfNeighbor(s, puzzle_id, placed_piece_id, i) ==
    LET placed       == s.pieces[placed_piece_id]
        nb           == GetNeighborLocationsAndSides(placed.location, placed.rotation)[i]
        neighbor_loc == nb.loc
        placed_side  == nb.side
        neighbor_id  == PieceAt(s, puzzle_id, neighbor_loc)
        is_neighbor_open == (neighbor_id = UNPLACED_PIECE_ID)
        placed_piece_bb_info == BestBuddies(oracle, numb_pieces, placed_piece_id, placed_side)
        neighbor_side == SideAdjacentToLocation(s.pieces[neighbor_id].location,
                                                s.pieces[neighbor_id].rotation,
                                                placed.location)
        neighbor_best_buddy == BestBuddies(oracle, numb_pieces, neighbor_id, neighbor_side)
        deleted == DeleteOpenBestBuddy(s, puzzle_id, neighbor_id, neighbor_side)
    IN  IF ~InGrid(numb_pieces, neighbor_loc) THEN Raise(s, "IndexError")
        ELSE IF is_neighbor_open
        THEN AccuracyOfPlacedPiece(s, puzzle_id, placed_piece_id, placed_side, TRUE)
        ELSE IF neighbor_side = NoneValue THEN Raise(s, "NotAdjacentError")
        ELSE IF neighbor_best_buddy = <<>>
        THEN AccuracyOfPlacedPiece(s, puzzle_id, placed_piece_id, placed_side, FALSE)
        ELSE IF placed_piece_bb_info # <<>>
                /\ placed_piece_bb_info[1] = <<neighbor_id, neighbor_side>>
        THEN AddCorrectBestBuddy(
                AddCorrectBestBuddy(deleted, puzzle_id, neighbor_id, neighbor_side),
                puzzle_id, placed_piece_id, placed_side)
        ELSE AccuracyOfPlacedPiece(deleted, puzzle_id, placed_piece_id, placed_side, FALSE)

\* PaikinTalSolver._update_best_buddy_accuracy
RECURSIVE UpdateBestBuddyAccuracyFrom(_, _, _, _)
UpdateBestBuddyAccuracyFrom(s, puzzle_id, placed_piece_id, i) ==
    IF i > 4 \/ s.fault # "" THEN s
    ELSE UpdateBestBuddyAccuracyFrom(
            AccuracyOfNeighbor(s, puzzle_id, placed_piece_id, i),
            puzzle_id, placed_piece_id, i + 1)

UpdateBestBuddyAccuracy(s, puzzle_id, placed_piece_id) ==
    UpdateBestBuddyAccuracyFrom(s, puzzle_id, placed_piece_id, 1)

\* PaikinTalSolver._get_total_best_buddy_count
RECURSIVE GetTotalBestBuddyCountFrom(_, _)
GetTotalBestBuddyCountFrom(accuracy, i) ==
    IF i > Len(accuracy) THEN 0
    ELSE Cardinality(accuracy[i].open) + Cardinality(accuracy[i].wrong)
         + Cardinality(accuracy[i].correct) + GetTotalBestBuddyCountFrom(accuracy, i + 1)

GetTotalBestBuddyCount(s) == GetTotalBestBuddyCountFrom(s.best_buddy_accuracy, 1)

\* ------------------------------------------------------- pool, heap, slots
RECURSIVE HeapPushAll(_, _, _)
HeapPushAll(heap, items, i) ==
    IF i > Len(items) THEN heap ELSE HeapPushAll(HeapPush(heap, items[i]), items, i + 1)

RECURSIVE Flatten(_, _)
Flatten(seqs, i) == IF i > Len(seqs) THEN <<>> ELSE seqs[i] \o Flatten(seqs, i + 1)

\* self._best_buddies_pool.values(): the pool is a dict keyed by str(piece_id)
\* and a dict is walked in the order of its hash slots.  With at most five
\* one-digit keys the table has eight slots and none is shared: the slot of
\* str(id) is the low three bits of its hash, id with its lowest bit flipped.
DictSlot(piece_id) == IF piece_id % 2 = 0 THEN piece_id + 1 ELSE piece_id - 1

RECURSIVE PoolValuesFrom(_, _)
PoolValuesFrom(pool, slot) ==
    IF slot > 7 THEN <<>>
    ELSE (IF DictSlot(slot) \in pool THEN <<DictSlot(slot)>> ELSE <<>>)
         \o PoolValuesFrom(pool, slot + 1)

PoolValues(pool) == PoolValuesFrom(pool, 0)

\* The heap entries _add_best_buddies_to_pool pushes for a best buddy that
\* entered the pool: one per open slot and valid side, in list order.
HeapInfosOfBuddy(s, bb_id) ==
    Flatten(
        [k \in 1..Len(s.open_locations) |->
            LET open_slot_info == s.open_locations[k]
                valid_sides == GetValidNeighborSides(cfg.puzzle_type, open_slot_info.open_side)
            IN  [j \in 1..Len(valid_sides) |->
                    [bb_id |-> bb_id,
                     bb_side |-> valid_sides[j],
                     neighbor_id |-> open_slot_info.piece_id,
                     neighbor_side |-> open_slot_info.open_side,
                     puzzle_id |-> open_slot_info.puzzle_id,
                     location |-> open_slot_info.location,
                     mutual_compatibility |->
                        MutualCompatibility(oracle, numb_pieces, s.recalculated,
                                            bb_id, valid_sides[j],
                                            open_slot_info.piece_id, open_slot_info.open_side)]]],
        1)

\* PaikinTalSolver._add_best_buddies_to_pool
RECURSIVE AddBestBuddiesToPoolFrom(_, _, _)
AddBestBuddiesToPoolFrom(s, piece_id, i) ==
    IF i > Len(AllSides) THEN s
    ELSE LET best_buddies_for_side == BestBuddies(oracle, numb_pieces, piece_id, AllSides[i])
             bb_id == best_buddies_for_side[1][1]
         IN  AddBestBuddiesToPoolFrom(
                IF best_buddies_for_side = <<>> THEN s
                ELSE IF s.piece_placed[bb_id] \/ bb_id \in s.best_buddies_pool THEN s
                ELSE [s EXCEPT !.best_buddies_pool = @ \cup {bb_id},
                               !.best_buddy_open_slot_heap =
                                    HeapPushAll(@, HeapInfosOfBuddy(s, bb_id), 1)],
                piece_id, i + 1)

AddBestBuddiesToPool(s, piece_id) == AddBestBuddiesToPoolFrom(s, piece_id, 1)

\* The heap entries _update_open_slots pushes for a slot it opened: one per
\* pooled best buddy and valid side, in the order of the pool's values.
HeapInfosOfSlot(s, puzzle_id, location, piece_id, piece_side) ==
    LET pool_values == PoolValues(s.best_buddies_pool)
        valid_sides == GetValidNeighborSides(cfg.puzzle_type, piece_side)
    IN  Flatten(
            [k \in 1..Len(pool_values) |->
                [j \in 1..Len(valid_sides) |->
                    [bb_id |-> pool_values[k],
                     bb_side |-> valid_sides[j],
                     neighbor_id |-> piece_id,
                     neighbor_side |-> piece_side,
                     puzzle_id |-> puzzle_id,
                     location |-> location,
                     mutual_compatibility |->
                        MutualCompatibility(oracle, numb_pieces, s.recalculated,
                                            piece_id, piece_side,
                                            pool_values[k], valid_sides[j])]]],
            1)

\* Mutant of _update_open_slots: the append of the slot sits inside the loop
\* over the pooled best buddies, so a slot is listed once per pooled buddy.
RECURSIVE AppendCopies(_, _, _)
AppendCopies(slots, slot, copies) ==
    IF copies = 0 THEN slots ELSE AppendCopies(Append(slots, slot), slot, copies - 1)

RECURSIVE UpdateOpenSlotsAppendPerBuddyFrom(_, _, _)
UpdateOpenSlotsAppendPerBuddyFrom(s, piece_id, i) ==
    IF i > 4 \/ s.fault # "" THEN s
    ELSE LET placed    == s.pieces[piece_id]
             puzzle_id == placed.puzzle_id
             location_side == GetNeighborLocationsAndSides(placed.location, placed.rotation)[i]
             location   == location_side.loc
             piece_side == location_side.side
         IN  UpdateOpenSlotsAppendPerBuddyFrom(
                IF ~InGrid(numb_pieces, location) THEN Raise(s, "IndexError")
                ELSE IF IsSlotOpen(s, puzzle_id, location)
                THEN [s EXCEPT
                        !.open_locations =
                            AppendCopies(@, [puzzle_id |-> puzzle_id, location |-> location,
                                             piece_id |-> piece_id, open_side |-> piece_side],
                                         Cardinality(s.best_buddies_pool)),
                        !.best_buddy_open_slot_heap =
                            HeapPushAll(@, HeapInfosOfSlot(s, puzzle_id, location,
                                                          piece_id, piece_side), 1)]
                ELSE s,
                piece_id, i + 1)

UpdateOpenSlotsAppendPerBuddy(s, piece_id) == UpdateOpenSlotsAppendPerBuddyFrom(s, piece_id, 1)

\* PaikinTalSolver._update_open_slots
RECURSIVE UpdateOpenSlotsFrom(_, _, _)
UpdateOpenSlotsFrom(s, piece_id, i) ==
    IF i > 4 \/ s.fault # "" THEN s
    ELSE LET placed    == s.pieces[piece_id]
             puzzle_id == placed.puzzle_id
             location_side == GetNeighborLocationsAndSides(placed.location, placed.rotation)[i]
             location   == location_side.loc
             piece_side == location_side.side
         IN  UpdateOpenSlotsFrom(
                IF ~InGrid(numb_pieces, location) THEN Raise(s, "IndexError")
                ELSE IF IsSlotOpen(s, puzzle_id, location)
                THEN [s EXCEPT
                        !.open_locations =
                            Append(@, [puzzle_id |-> puzzle_id, location |-> location,
                                       piece_id |-> piece_id, open_side |-> piece_side]),
                        !.best_buddy_open_slot_heap =
                            HeapPushAll(@, HeapInfosOfSlot(s, puzzle_id, location,
                                                          piece_id, piece_side), 1)]
                ELSE s,
                piece_id, i + 1)

UpdateOpenSlots(s, piece_id) == UpdateOpenSlotsFrom(s, piece_id, 1)

\* ------------------------------------------------------------- placement
\* PaikinTalSolver._place_seed_piece
PlaceSeedPiece(s) ==
    LET numb         == s.numb_puzzles + 1
        seed_piece_id == NextStartingPiece(oracle, numb_pieces, s.piece_placed)
        puzzle_id    == numb - 1
        board_center == <<numb_pieces \div 2, numb_pieces \div 2>>
        marked == MarkPiecePlaced([s EXCEPT !.numb_puzzles = numb], seed_piece_id)
        placed ==
            [marked EXCEPT
                !.pieces[seed_piece_id] =
                    [puzzle_id |-> puzzle_id, location |-> board_center, rotation |-> 0],
                !.last_best_buddy_heap_housekeeping = marked.numb_unplaced_pieces,
                !.piece_locations =
                    Append(@, [c \in GridCells(numb_pieces) |->
                                  IF c = board_center THEN seed_piece_id
                                  ELSE UNPLACED_PIECE_ID]),
                !.placed_puzzle_dimensions =
                    Append(@, [top_left |-> board_center, bottom_right |-> board_center]),
                !.best_buddy_accuracy = Append(@, NewBestBuddyAccuracy)]
        scored == UpdateBestBuddyAccuracy(placed, puzzle_id, seed_piece_id)
    IN  IF scored.fault # "" THEN scored
        ELSE UpdateOpenSlots(AddBestBuddiesToPool(scored, seed_piece_id), seed_piece_id)

\* Mutant of _spawn_new_board: the list of open slots is reset with the pool
\* and the heap.
SpawnNewBoardResettingOpenSlots(s) ==
    PlaceSeedPiece(IF cfg.clear_best_buddy_heap_on_spawn
                   THEN [InitializeBestBuddyPoolAndHeap(s) EXCEPT !.open_locations = <<>>]
                   ELSE [s EXCEPT !.open_locations = <<>>])

\* PaikinTalSolver._spawn_new_board
SpawnNewBoard(s) ==
    PlaceSeedPiece(IF cfg.clear_best_buddy_heap_on_spawn
                   THEN InitializeBestBuddyPoolAndHeap(s) ELSE s)

\* PaikinTalSolver._place_normal_piece
PlaceNormalPiece(s, next_piece_info) ==
    LET puzzle_id     == next_piece_info.puzzle_id
        next_piece_id == next_piece_info.next_piece_id
        neighbor      == s.pieces[next_piece_info.neighbor_piece_id]
        location      == next_piece_info.open_slot_location
        assigned ==
            [s EXCEPT !.pieces[next_piece_id] =
                [puzzle_id |-> puzzle_id,
                 location  |-> location,
                 rotation  |-> PlacedPieceRotation(next_piece_info.next_piece_side,
                                                   next_piece_info.neighbor_piece_side,
                                                   neighbor.rotation)]]
        sized == UpdatedPuzzleDimensions(assigned, puzzle_id, location)
        written ==
            [sized EXCEPT !.piece_locations[puzzle_id + 1][GridCell(numb_pieces, location)] =
                              next_piece_id]
        scored == UpdateBestBuddyAccuracy(written, puzzle_id, next_piece_id)
        closed == RemoveOpenSlot(MarkPiecePlaced(scored, next_piece_id), puzzle_id, location)
        unpooled == IF next_piece_info.is_best_buddy
                    THEN RemoveBestBuddyFromPool(closed, next_piece_id) ELSE closed
    IN  IF sized.fault # "" THEN sized
        ELSE IF scored.fault # "" THEN scored
        ELSE IF unpooled.fault # "" THEN unpooled
        ELSE UpdateOpenSlots(AddBestBuddiesToPool(unpooled, next_piece_id), next_piece_id)

\* ------------------------------------------------------------- selection
\* PaikinTalSolver._check_if_perform_best_buddy_heap_housecleaning
CheckIfPerformBestBuddyHeapHousecleaning(s) ==
    IF ~cfg.enable_best_buddy_heap_housekeeping THEN FALSE
    ELSE /\ Len(s.best_buddy_open_slot_heap) >= cfg.minimum_clean_heap_size
         /\ s.last_best_buddy_heap_housekeeping - s.numb_unplaced_pieces
                >= cfg.minimum_clean_heap_frequency

\* Mutant of the test of _clean_best_buddy_heap: an entry is dropped only
\* when its slot is full and its best buddy was placed.
KeptUnlessAllStale(s, bb_heap_info) ==
    ~(/\ ~IsSlotOpen(s, bb_heap_info.puzzle_id, bb_heap_info.location)
      /\ s.piece_placed[bb_heap_info.bb_id])

\* The test of _clean_best_buddy_heap on one heap entry: it is kept unless
\* its slot is full (or out of bounds) or its best buddy was placed.
KeptByCleaning(s, bb_heap_info) ==
    ~(\/ ~IsSlotOpen(s, bb_heap_info.puzzle_id, bb_heap_info.location)
      \/ s.piece_placed[bb_heap_info.bb_id])

\* PaikinTalSolver._clean_best_buddy_heap
CleanBestBuddyHeap(s) ==
    [s EXCEPT
        !.last_best_buddy_heap_housekeeping = s.numb_unplaced_pieces,
        !.best_buddy_open_slot_heap =
            Heapify(SelectSeq(@, LAMBDA bb_heap_info : KeptByCleaning(s, bb_heap_info)))]

\* Mutant of the popping loop: an empty heap ends the loop with no piece
\* instead of raising.
RECURSIVE PopUntilValidOrEmpty(_)
PopUntilValidOrEmpty(s) ==
    IF s.best_buddy_open_slot_heap = <<>>
    THEN [s |-> s, next |-> <<>>]
    ELSE LET popped    == HeapPop(s.best_buddy_open_slot_heap)
             heap_info == popped.item
             after     == [s EXCEPT !.best_buddy_open_slot_heap = popped.heap]
         IN  IF ~s.piece_placed[heap_info.bb_id]
                /\ IsSlotOpen(s, heap_info.puzzle_id, heap_info.location)
             THEN [s |-> after,
                   next |-> <<[puzzle_id |-> heap_info.puzzle_id,
                               open_slot_location |-> heap_info.location,
                               next_piece_id |-> heap_info.bb_id,
                               next_piece_side |-> heap_info.bb_side,
                               neighbor_piece_id |-> heap_info.neighbor_id,
                               neighbor_piece_side |-> heap_info.neighbor_side,
                               mutual_compatibility |-> heap_info.mutual_compatibility,
                               is_best_buddy |-> TRUE]>>]
             ELSE PopUntilValidOrEmpty(after)

\* The loop of _find_next_piece that pops the heap until an entry is found
\* whose piece is unplaced and whose slot is open; heappop of an empty heap
\* raises IndexError.
RECURSIVE PopUntilValid(_)
PopUntilValid(s) ==
    IF s.best_buddy_open_slot_heap = <<>>
    THEN [s |-> Raise(s, "IndexError"), next |-> <<>>]
    ELSE LET popped    == HeapPop(s.best_buddy_open_slot_heap)
             heap_info == popped.item
             after     == [s EXCEPT !.best_buddy_open_slot_heap = popped.heap]
         IN  IF ~s.piece_placed[heap_info.bb_id]
                /\ IsSlotOpen(s, heap_info.puzzle_id, heap_info.location)
             THEN [s |-> after,
                   next |-> <<[puzzle_id |-> heap_info.puzzle_id,
                               open_slot_location |-> heap_info.location,
                               next_piece_id |-> heap_info.bb_id,
                               next_piece_side |-> heap_info.bb_side,
                               neighbor_piece_id |-> heap_info.neighbor_id,
                               neighbor_piece_side |-> heap_info.neighbor_side,
                               mutual_compatibility |-> heap_info.mutual_compatibility,
                               is_best_buddy |-> TRUE]>>]
             ELSE PopUntilValid(after)

\* The pairings _get_next_piece_from_pool goes through, in its order: every
\* unplaced piece, for each every valid open slot, for each every valid side.
PairingsOfPiece(s, next_piece_id) ==
    Flatten(
        [k \in 1..Len(s.open_locations) |->
            LET open_slot == s.open_locations[k]
                valid_sides == GetValidNeighborSides(cfg.puzzle_type, open_slot.open_side)
            IN  IF ~IsSlotOpen(s, open_slot.puzzle_id, open_slot.location) THEN <<>>
                ELSE [j \in 1..Len(valid_sides) |->
                        [puzzle_id |-> open_slot.puzzle_id,
                         open_slot_location |-> open_slot.location,
                         next_piece_id |-> next_piece_id,
                         next_piece_side |-> valid_sides[j],
                         neighbor_piece_id |-> open_slot.piece_id,
                         neighbor_piece_side |-> open_slot.open_side,
                         mutual_compatibility |->
                            MutualCompatibility(oracle, numb_pieces, s.recalculated,
                                                next_piece_id, valid_sides[j],
                                                open_slot.piece_id, open_slot.open_side),
                         is_best_buddy |-> FALSE]]],
        1)

\* Mutant of the comparison in _get_next_piece_from_pool: a pairing that ties
\* with the best one so far replaces it (>= for >).
RECURSIVE BestPairingLastMaximum(_, _, _)
BestPairingLastMaximum(pairings, best_piece, i) ==
    IF i > Len(pairings) THEN best_piece
    ELSE BestPairingLastMaximum(pairings,
                     IF best_piece = <<>>
                        \/ pairings[i].mutual_compatibility >= best_piece[1].mutual_compatibility
                     THEN <<pairings[i]>> ELSE best_piece,
                     i + 1)

RECURSIVE BestPairing(_, _, _)
BestPairing(pairings, best_piece, i) ==
    IF i > Len(pairings) THEN best_piece
    ELSE BestPairing(pairings,
                     IF best_piece = <<>>
                        \/ pairings[i].mutual_compatibility > best_piece[1].mutual_compatibility
                     THEN <<pairings[i]>> ELSE best_piece,
                     i + 1)

\* PaikinTalSolver._get_next_piece_from_pool
GetNextPieceFromPool(s, unplaced_pieces) ==
    BestPairing(Flatten([k \in 1..Len(unplaced_pieces) |->
                            PairingsOfPiece(s, unplaced_pieces[k])], 1),
                <<>>, 1)

\* The list of unplaced piece ids built by _find_next_piece, ascending.
RECURSIVE UnplacedPiecesFrom(_, _)
UnplacedPiecesFrom(s, p_i) ==
    IF p_i >= numb_pieces THEN <<>>
    ELSE (IF ~s.piece_placed[p_i] THEN <<p_i>> ELSE <<>>) \o UnplacedPiecesFrom(s, p_i + 1)

\* PaikinTalSolver._find_next_piece: the solver after the call and the piece
\* it returned (<<>> for None).
FindNextPiece(s) ==
    IF s.best_buddies_pool # {}
    THEN PopUntilValid(IF CheckIfPerformBestBuddyHeapHousecleaning(s)
                       THEN CleanBestBuddyHeap(s) ELSE s)
    ELSE LET recomputed == [s EXCEPT !.recalculated = TRUE]
         IN  [s |-> recomputed,
              next |-> GetNextPieceFromPool(recomputed, UnplacedPiecesFrom(recomputed, 0))]

\* Mutant of the spawn test: a board is spawned for a candidate above the
\* threshold instead of below it.
SpawnsNewBoardAboveThreshold(s, next_piece_info) ==
    /\ s.numb_puzzles < cfg.numb_puzzles
    /\ next_piece_info.mutual_compatibility > cfg.new_board_mutual_compatibility

\* Mutant of the decision of run(): a candidate at the threshold spawns too.
SpawnsNewBoardAtThreshold(s, next_piece_info) ==
    /\ s.numb_puzzles < cfg.numb_puzzles
    /\ next_piece_info.mutual_compatibility <= cfg.new_board_mutual_compatibility

\* Mutant of the decision of run(): the number of boards is not looked at.
SpawnsNewBoardIgnoringTarget(s, next_piece_info) ==
    next_piece_info.mutual_compatibility < cfg.new_board_mutual_compatibility

\* PaikinTalSolver._find_next_piece as it runs when
\* _ENABLE_BEST_BUDDY_HEAP_HOUSEKEEPING is False: the housecleaning test
\* (solver.py:457-458) answers False and the heap is never compacted.
FindNextPieceWithoutHousekeeping(s) ==
    IF s.best_buddies_pool # {}
    THEN PopUntilValid(s)
    ELSE LET recomputed == [s EXCEPT !.recalculated = TRUE]
         IN  [s |-> recomputed,
              next |-> GetNextPieceFromPool(recomputed, UnplacedPiecesFrom(recomputed, 0))]

\* Mutant of the decision of run(): a target of zero boards sets no limit.
SpawnsNewBoardZeroUnbounded(s, next_piece_info) ==
    /\ (cfg.numb_puzzles = 0 \/ s.numb_puzzles < cfg.numb_puzzles)
    /\ next_piece_info.mutual_compatibility < cfg.new_board_mutual_compatibility

\* The decision of run() between a new board and the placement of next_piece
\* (solver.py:239-240).
SpawnsNewBoard(s, next_piece_info) ==
    /\ s.numb_puzzles < cfg.numb_puzzles
    /\ next_piece_info.mutual_compatibility < cfg.new_board_mutual_compatibility

\* The checks at the end of run() (solver.py:248-264).
FinishRun(s) ==
    IF cfg.print_progress_messages /\ s.numb_unplaced_pieces = 0
    THEN LET cleared == InitializeBestBuddyPoolAndHeap(s)
         IN  IF cfg.perform_assertion_check
                /\ ~(/\ \A i \in 1..Len(s.best_buddy_accuracy) :
                            Cardinality(s.best_buddy_accuracy[i].open) = 0
                     /\ GetTotalBestBuddyCount(s) = TotalBestBuddyCount(oracle, numb_pieces))
             THEN Raise(cleared, "AssertionError")
             ELSE cleared
    ELSE s

\* What one pass of the loop of run() shows to the outside: the piece it
\* placed with its board, location and rotation, or the exception it raised.
PlacementOf(before, after) ==
    IF after.fault # "" THEN [raised |-> after.fault]
    ELSE LET piece_id == CHOOSE p \in DOMAIN after.piece_placed :
                            after.piece_placed[p] /\ ~before.piece_placed[p]
         IN  [piece_id  |-> piece_id,
              puzzle_id |-> after.pieces[piece_id].puzzle_id,
              location  |-> after.pieces[piece_id].location,
              rotation  |-> after.pieces[piece_id].rotation]

\* The loop of run() (solver.py:227-246) from solver state s to its end, as
\* the sequence of its placements; housekeeping tells whether the heap
\* housekeeping is enabled.
RECURSIVE RunLoop(_, _)
RunLoop(s, housekeeping) ==
    IF s.fault # "" \/ s.numb_unplaced_pieces <= 0 THEN <<>>
    ELSE LET found == IF housekeeping THEN FindNextPiece(s)
                      ELSE FindNextPieceWithoutHousekeeping(s)
             after == IF found.s.fault # "" THEN found.s
                      ELSE IF found.next = <<>> THEN Raise(found.s, "AttributeError")
                      ELSE IF SpawnsNewBoard(found.s, found.next[1])
                      THEN SpawnNewBoard(found.s)
                      ELSE PlaceNormalPiece(found.s, found.next[1])
         IN  <<PlacementOf(s, after)>> \o RunLoop(after, housekeeping)

\* Mutant of run(): the seed is placed whatever skip_initial says.
RunAlwaysPlacingSeed(s, skip_initial) ==
    LET seeded == PlaceSeedPiece(s)
        marked == IF seeded.fault # "" THEN seeded
                  ELSE [seeded EXCEPT !.last_best_buddy_heap_housekeeping =
                                          seeded.numb_unplaced_pieces]
    IN  <<PlacementOf(s, seeded)>> \o RunLoop(marked, TRUE)

\* PaikinTalSolver.run(skip_initial) (solver.py:213-246) on solver state s,
\* as the sequence of its placements, the seed of the first board included
\* when it is placed.
Run(s, skip_initial) ==
    IF skip_initial THEN RunLoop(s, TRUE)
    ELSE LET seeded == PlaceSeedPiece(s)
             marked == IF seeded.fault # "" THEN seeded
                       ELSE [seeded EXCEPT !.last_best_buddy_heap_housekeeping =
                                               seeded.numb_unplaced_pieces]
         IN  <<PlacementOf(s, seeded)>> \o RunLoop(marked, TRUE)

\* ---------------------------------------------------------- configurations
\* The constructor's defaults and the class-level flags as the source sets
\* them, with the housekeeping thresholds scaled.
DefaultConfig ==
    [numb_puzzles |-> 1,
     fixed_puzzle_dimensions |-> <<>>,
     new_board_mutual_compatibility |-> DEFAULT_MINIMUM_MUTUAL_COMPATIBILITY_FOR_NEW_BOARD,
     puzzle_type |-> 1,
     clear_best_buddy_heap_on_spawn |-> TRUE,
     print_progress_messages |-> TRUE,
     perform_assertion_check |-> TRUE,
     enable_best_buddy_heap_housekeeping |-> TRUE,
     minimum_clean_heap_size |-> CleanHeapSize,
     minimum_clean_heap_frequency |-> CleanHeapFrequency]

\* Largest target number of boards and largest fixed board side tried.
MaxBoards == 3
MaxSide == 2

FixedDimensions == (1..MaxSide) \X (1..MaxSide)

\* The configurations tried: every target board count (with both thresholds
\* where a board can be spawned), fixed dimensions, and each class-level flag
\* flipped.
Configs ==
    {[DefaultConfig EXCEPT !.numb_puzzles = k] : k \in (-1)..1}
    \cup {[DefaultConfig EXCEPT !.numb_puzzles = k, !.new_board_mutual_compatibility = m] :
            k \in 2..MaxBoards, m \in {1, 2}}
    \cup {[DefaultConfig EXCEPT !.fixed_puzzle_dimensions = d] : d \in FixedDimensions}
    \cup {[DefaultConfig EXCEPT !.numb_puzzles = k,
                                !.fixed_puzzle_dimensions = <<MaxSide, MaxSide>>] : k \in {0, 2}}
    \cup {[DefaultConfig EXCEPT !.numb_puzzles = 2, !.new_board_mutual_compatibility = m,
                                !.clear_best_buddy_heap_on_spawn = FALSE] : m \in {1, 2}}
    \cup {[DefaultConfig EXCEPT !.print_progress_messages = FALSE],
          [DefaultConfig EXCEPT !.perform_assertion_check = FALSE],
          [DefaultConfig EXCEPT !.enable_best_buddy_heap_housekeeping = FALSE]}

\* Most pieces of a dataset without any best buddy.
MaxLoners == 1

\* The datasets tried for n pieces.
Oracles(n) ==
    [right_step : 0..1,
     down_step : 0..(n - 1),
     loners : {(n - k)..(n - 1) : k \in 0..MaxLoners},
     bonus : 0..1,
     recalc_gain : 0..1,
     first_seed : 0..(n - 1),
     favoured : {{}},
     width : {0}]

\* The piece counts of the scenarios: a block of BlockSide x BlockSide
\* pieces, alone and with two more pieces.
BlockSide == 2
ScenarioSizes == {BlockSide * BlockSide, BlockSide * BlockSide + 2}

\* The datasets of the scenarios for n pieces: pieces 0 .. 3 are the cells of
\* a 2 x 2 image in which every adjacent pair is a pair of best buddies that
\* scores higher than any other pair, and the other pieces have no best buddy.
BlockDatasets(n) ==
    [right_step : {1},
     down_step : {BlockSide},
     loners : {(BlockSide * BlockSide)..(n - 1)},
     bonus : {1},
     recalc_gain : 0..1,
     first_seed : 0..(n - 1),
     favoured : {{}},
     width : {BlockSide}]

\* Most favoured pairs of a dataset.
MaxFavoured == 2

\* The datasets tried for n pieces in which the compatibilities of pieces
\* that are not best buddies differ from pair to pair: up to MaxFavoured
\* pairs of pieces score higher than the others.
DatasetsWithTies(n) ==
    [right_step : {0},
     down_step : 0..(n - 1),
     loners : {{}},
     bonus : {1},
     recalc_gain : {0},
     first_seed : 0..(n - 1),
     favoured : {f \in SUBSET {{p, q} : p, q \in 0..(n - 1)} :
                    /\ \A pair \in f : Cardinality(pair) = 2
                    /\ Cardinality(f) <= MaxFavoured},
     width : {0}]

\* The checks of PaikinTalSolver.__init__ (solver.py:160-163)
ConstructorRejects(c) ==
    \/ c.numb_puzzles < 0
    \/ (c.numb_puzzles > 1 /\ c.fixed_puzzle_dimensions # <<>>)

\* ------------------------------------------------------------------ actions
Commit(s) ==
    /\ pieces' = s.pieces
    /\ piece_placed' = s.piece_placed
    /\ numb_unplaced_pieces' = s.numb_unplaced_pieces
    /\ open_locations' = s.open_locations
    /\ piece_locations' = s.piece_locations
    /\ placed_puzzle_dimensions' = s.placed_puzzle_dimensions
    /\ best_buddy_accuracy' = s.best_buddy_accuracy
    /\ best_buddies_pool' = s.best_buddies_pool
    /\ best_buddy_open_slot_heap' = s.best_buddy_open_slot_heap
    /\ numb_puzzles' = s.numb_puzzles
    /\ last_best_buddy_heap_housekeeping' = s.last_best_buddy_heap_housekeeping
    /\ recalculated' = s.recalculated
    /\ fault' = s.fault

\* Mutant of the constructor: the arguments are checked after the fields
\* have been set.
ConstructorChecksLast(s) ==
    LET built == [s EXCEPT !.numb_unplaced_pieces = numb_pieces,
                           !.numb_puzzles = 0]
    IN  IF ConstructorRejects(cfg) THEN Raise(built, "ValueError") ELSE built

\* PaikinTalSolver.__init__ (solver.py:160-211): the checks of the arguments
\* come first; a rejected configuration raises ValueError and sets nothing.
Constructor(s) ==
    IF ConstructorRejects(cfg) THEN Raise(s, "ValueError")
    ELSE [s EXCEPT
            !.piece_placed = [p \in 0..(numb_pieces - 1) |-> FALSE],
            !.numb_unplaced_pieces = numb_pieces,
            !.open_locations = <<>>,
            !.piece_locations = <<>>,
            !.best_buddy_accuracy = <<>>,
            !.placed_puzzle_dimensions = <<>>,
            !.best_buddies_pool = {},
            !.best_buddy_open_slot_heap = <<>>,
            !.numb_puzzles = 0,
            !.last_best_buddy_heap_housekeeping = NoneValue]

\* No MultiPuzzleSolver drives the solver.
NoMultiPuzzleSolver == [pc |-> "none"]

\* The InterPieceDistance of a solver whose constructor has not computed it.
NoInterPieceDistance ==
    [right_step |-> NoneValue, down_step |-> NoneValue, loners |-> {},
     bonus |-> NoneValue, recalc_gain |-> NoneValue, first_seed |-> NoneValue,
     favoured |-> {}, width |-> NoneValue]

\* Before PaikinTalSolver(...) is called: the arguments are chosen and the
\* object has no field yet (NoneValue for a number that is not set).
Init ==
    /\ numb_pieces \in 1..NumPieces
    /\ cfg \in Configs
    /\ oracle = NoInterPieceDistance
    /\ recalculated = FALSE
    /\ pieces = [p \in 0..(numb_pieces - 1) |->
                    [puzzle_id |-> NoneValue, location |-> <<>>, rotation |-> NoneValue]]
    /\ piece_placed = [p \in 0..(numb_pieces - 1) |-> FALSE]
    /\ numb_unplaced_pieces = NoneValue
    /\ open_locations = <<>>
    /\ piece_locations = <<>>
    /\ placed_puzzle_dimensions = <<>>
    /\ best_buddy_accuracy = <<>>
    /\ best_buddies_pool = {}
    /\ best_buddy_open_slot_heap = <<>>
    /\ numb_puzzles = NoneValue
    /\ last_best_buddy_heap_housekeeping = NoneValue
    /\ next_piece = <<>>
    /\ fault = ""
    /\ pc = "new"
    /\ ctl = NoMultiPuzzleSolver

\* PaikinTalSolver(...): the constructor call.  The inter-piece distances are
\* calculated (solver.py:205) only when the arguments were accepted.
Construct ==
    /\ pc = "new"
    /\ LET s == Constructor(Self)
       IN  /\ Commit(s)
           /\ pc' = IF s.fault # "" THEN "rejected" ELSE "constructed"
           /\ IF s.fault # "" THEN oracle' = oracle
              ELSE oracle' \in Oracles(numb_pieces)
    /\ UNCHANGED <<cfg, numb_pieces, next_piece, ctl>>

\* run(), up to the loop: the seed of the first board (solver.py:220-224).
RunPlaceSeed ==
    /\ pc = "constructed"
    /\ LET seeded == PlaceSeedPiece(Self)
           s == IF seeded.fault # "" THEN seeded
                ELSE [seeded EXCEPT !.last_best_buddy_heap_housekeeping =
                                        seeded.numb_unplaced_pieces]
       IN  /\ Commit(s)
           /\ pc' = IF s.fault # "" THEN "fault" ELSE "loop"
    /\ UNCHANGED <<cfg, oracle, numb_pieces, next_piece, ctl>>

\* One pass of the loop, first half: next_piece = self._find_next_piece()
RunFindNextPiece ==
    /\ pc = "loop"
    /\ numb_unplaced_pieces > 0
    /\ LET found == FindNextPiece(Self)
       IN  /\ Commit(found.s)
           /\ next_piece' = found.next
           /\ pc' = IF found.s.fault # "" THEN "fault" ELSE "selected"
    /\ UNCHANGED <<cfg, oracle, numb_pieces, ctl>>

\* One pass of the loop, second half, when no pairing was found: the test of
\* next_piece.mutual_compatibility, or _place_normal_piece, reads an
\* attribute of None.
RunNoPiece ==
    /\ pc = "selected"
    /\ next_piece = <<>>
    /\ Commit(Raise(Self, "AttributeError"))
    /\ pc' = "fault"
    /\ UNCHANGED <<cfg, oracle, numb_pieces, next_piece, ctl>>

\* One pass of the loop, second half: self._spawn_new_board()
RunSpawnNewBoard ==
    /\ pc = "selected"
    /\ next_piece # <<>>
    /\ SpawnsNewBoard(Self, next_piece[1])
    /\ LET s == SpawnNewBoard(Self)
       IN  /\ Commit(s)
           /\ pc' = IF s.fault # "" THEN "fault" ELSE "loop"
    /\ UNCHANGED <<cfg, oracle, numb_pieces, next_piece, ctl>>

\* One pass of the loop, second half: self._place_normal_piece(next_piece)
RunPlaceNormalPiece ==
    /\ pc = "selected"
    /\ next_piece # <<>>
    /\ ~SpawnsNewBoard(Self, next_piece[1])
    /\ LET s == PlaceNormalPiece(Self, next_piece[1])
       IN  /\ Commit(s)
           /\ pc' = IF s.fault # "" THEN "fault" ELSE "loop"
    /\ UNCHANGED <<cfg, oracle, numb_pieces, next_piece, ctl>>

\* The loop has ended: the final report and checks (solver.py:248-264).
RunFinish ==
    /\ pc = "loop"
    /\ numb_unplaced_pieces = 0
    /\ LET s == FinishRun(Self)
       IN  /\ Commit(s)
           /\ pc' = IF s.fault # "" THEN "fault" ELSE "done"
    /\ UNCHANGED <<cfg, oracle, numb_pieces, next_piece, ctl>>

Next ==
    \/ Construct
    \/ RunPlaceSeed
    \/ RunFindNextPiece
    \/ RunNoPiece
    \/ RunSpawnNewBoard
    \/ RunPlaceNormalPiece
    \/ RunFinish

Spec == Init /\ [][Next]_vars

\* PaikinTalSolver(...) on one of the datasets with favoured pairs.
ConstructWithTies ==
    /\ pc = "new"
    /\ LET s == Constructor(Self)
       IN  /\ Commit(s)
           /\ pc' = IF s.fault # "" THEN "rejected" ELSE "constructed"
           /\ IF s.fault # "" THEN oracle' = oracle
              ELSE oracle' \in DatasetsWithTies(numb_pieces)
    /\ UNCHANGED <<cfg, numb_pieces, next_piece, ctl>>

NextWithTies ==
    \/ ConstructWithTies
    \/ RunPlaceSeed
    \/ RunFindNextPiece
    \/ RunNoPiece
    \/ RunSpawnNewBoard
    \/ RunPlaceNormalPiece
    \/ RunFinish

\* The solver constructed and run on the datasets with favoured pairs.
SpecWithTies == Init /\ [][NextWithTies]_vars

\* Before PaikinTalSolver(...) is called on the pieces of a scenario.
InitOfScenarios ==
    /\ numb_pieces \in ScenarioSizes
    /\ cfg \in Configs
    /\ oracle = NoInterPieceDistance
    /\ recalculated = FALSE
    /\ pieces = [p \in 0..(numb_pieces - 1) |->
                    [puzzle_id |-> NoneValue, location |-> <<>>, rotation |-> NoneValue]]
    /\ piece_placed = [p \in 0..(numb_pieces - 1) |-> FALSE]
    /\ numb_unplaced_pieces = NoneValue
    /\ open_locations = <<>>
    /\ piece_locations = <<>>
    /\ placed_puzzle_dimensions = <<>>
    /\ best_buddy_accuracy = <<>>
    /\ best_buddies_pool = {}
    /\ best_buddy_open_slot_heap = <<>>
    /\ numb_puzzles = NoneValue
    /\ last_best_buddy_heap_housekeeping = NoneValue
    /\ next_piece = <<>>
    /\ fault = ""
    /\ pc = "new"
    /\ ctl = NoMultiPuzzleSolver

\* PaikinTalSolver(...) on the dataset of a scenario.
ConstructOnBlock ==
    /\ pc = "new"
    /\ LET s == Constructor(Self)
       IN  /\ Commit(s)
           /\ pc' = IF s.fault # "" THEN "rejected" ELSE "constructed"
           /\ IF s.fault # "" THEN oracle' = oracle
              ELSE oracle' \in BlockDatasets(numb_pieces)
    /\ UNCHANGED <<cfg, numb_pieces, next_piece, ctl>>

NextOfScenarios ==
    \/ ConstructOnBlock
    \/ RunPlaceSeed
    \/ RunFindNextPiece
    \/ RunNoPiece
    \/ RunSpawnNewBoard
    \/ RunPlaceNormalPiece
    \/ RunFinish

\* The solver constructed and run on the datasets of the scenarios.
SpecOfScenarios == InitOfScenarios /\ [][NextOfScenarios]_vars

\* The configurations with which a run is resumed: every target of at least
\* one board with each threshold and flag of Configs, without fixed
\* dimensions or with the smallest.
ResumeConfigs ==
    {c \in Configs : /\ c.numb_puzzles >= 1
                     /\ c.fixed_puzzle_dimensions \in {<<>>, <<1, 1>>}}

\* Before PaikinTalSolver(...) is called for a run that is resumed.
InitOfResume ==
    /\ Init
    /\ cfg \in ResumeConfigs

\* The solver constructed and run with the configurations of a resumed run.
SpecOfResume == InitOfResume /\ [][Next]_vars

\* run() is one sequential call, and every step of it moves its position:
\* while run() has neither returned nor raised, its position moves on.
Advance ==
    /\ pc \in {"new", "constructed", "loop", "selected"}
    /\ pc' \in {"constructed", "rejected", "loop", "selected", "done", "fault"} \ {pc}

FairSpec == Spec /\ WF_pc(Advance)

\* ------------------------------------------------------------------ results
\* The loop of get_solved_puzzles (solver.py:286-294) from piece p on; a
\* list indexed at or past its length raises IndexError.
RECURSIVE GetSolvedPuzzlesFrom(_, _, _, _)
GetSolvedPuzzlesFrom(s, p, solved_puzzles, unassigned_pieces) ==
    IF p >= numb_pieces
    THEN [fault |-> "", solved_puzzles |-> solved_puzzles,
          unassigned_pieces |-> unassigned_pieces]
    ELSE LET puzzle_id == s.pieces[p].puzzle_id
         IN  IF puzzle_id = NoneValue
             THEN GetSolvedPuzzlesFrom(s, p + 1, solved_puzzles, Append(unassigned_pieces, p))
             ELSE IF puzzle_id >= Len(solved_puzzles)
             THEN [fault |-> "IndexError", solved_puzzles |-> solved_puzzles,
                   unassigned_pieces |-> unassigned_pieces]
             ELSE GetSolvedPuzzlesFrom(s, p + 1,
                     [solved_puzzles EXCEPT ![puzzle_id + 1] = Append(@, p)],
                     unassigned_pieces)

\* PaikinTalSolver.get_solved_puzzles (solver.py:273-297): one list per board
\* of the target count, and the list of the pieces without a board.
GetSolvedPuzzles(s) ==
    GetSolvedPuzzlesFrom(s, 0, [b \in 1..cfg.numb_puzzles |-> <<>>], <<>>)

\* ------------------------------------------------------ multi-puzzle solver
\* MultiPuzzleSolver._MINIMUM_SEGMENT_SIZE
MINIMUM_SEGMENT_SIZE == 10

\* The piece counts handed to the multi-puzzle solver.
ControllerSizes == {21, 22, 88}
\* Most segments the single-puzzle solve of one round ends with, and the
\* sizes they have (a round may also end with all its pieces in one segment).
MaxSegmentsPerRound == 4
SegmentSizes == {2, 4, 5, 10, 11, 38, 40}
\* Most calls of run_imported_segmentation_round.
MaxResumes == 1

\* The variables of the PaikinTalSolver object.
solver_vars ==
    <<cfg, oracle, recalculated, numb_pieces, pieces, piece_placed,
      numb_unplaced_pieces, open_locations, piece_locations,
      placed_puzzle_dimensions, best_buddy_accuracy, best_buddies_pool,
      best_buddy_open_slot_heap, numb_puzzles,
      last_best_buddy_heap_housekeeping, next_piece, fault, pc>>

\* An empty dict.
EmptyDict == [k \in {} |-> NoneValue]

\* MultiPuzzleSolver.__init__ (multipuzzle_solver.py:21-44).  The fields
\* allowed and placer_settings are the placement eligibility and the placer
\* settings/distances of the PaikinTalSolver it builds; the other fields
\* after fault are the locals of _find_initial_segments and what was written
\* to files.
MultiPuzzleSolverInit(n, allow_export) ==
    [pc |-> "new",
     numb_pieces |-> n,
     segments |-> <<>>,
     piece_id_to_segment_map |-> EmptyDict,
     numb_segmentation_rounds |-> NoneValue,
     allowed |-> 0..(n - 1),
     placer_settings |-> "default",
     fault |-> "",
     skip_initial |-> FALSE,
     restored |-> FALSE,
     solved_on |-> {},
     solved_segments |-> <<>>,
     selected |-> {},
     max_segment_size |-> NoneValue,
     allow_export |-> allow_export,
     exported |-> EmptyDict,
     resumes |-> 0]

\* PaikinTalSolver.allow_placement_of_all_pieces
AllowPlacementOfAllPieces(c) == [c EXCEPT !.allowed = 0..(c.numb_pieces - 1)]

\* PaikinTalSolver.disallow_piece_placement
DisallowPiecePlacement(c, piece_id) == [c EXCEPT !.allowed = @ \ {piece_id}]

\* Mutant of restore_initial_placer_settings_and_distances: the restored
\* settings let every piece be placed again.
RestoreInitialPlacerSettingsAndEligibility(c) ==
    [c EXCEPT !.placer_settings = "default", !.restored = TRUE,
              !.allowed = 0..(c.numb_pieces - 1)]

\* PaikinTalSolver.restore_initial_placer_settings_and_distances: the placer
\* is put back as it was before the first solve; which pieces may be placed
\* is not touched.
RestoreInitialPlacerSettingsAndDistances(c) ==
    [c EXCEPT !.placer_settings = "default", !.restored = TRUE]

RECURSIVE SumOf(_)
SumOf(sizes) == IF sizes = <<>> THEN 0 ELSE Head(sizes) + SumOf(Tail(sizes))

\* The lists of segment sizes a solve of n pieces can end with.
RECURSIVE SizeListsUpTo(_, _)
SizeListsUpTo(n, k) ==
    IF n = 0 THEN {<<>>}
    ELSE IF k = 0 THEN {}
    ELSE UNION {{<<size>> \o rest : rest \in SizeListsUpTo(n - size, k - 1)} :
                    size \in {s \in SegmentSizes : s <= n}}

SizeLists(n) ==
    SizeListsUpTo(n, MaxSegmentsPerRound) \cup (IF n > 0 THEN {<<n>>} ELSE {})

\* PaikinTalSolver.segment()[0]: the segments of the one solved puzzle, with
\* the sizes given; the pieces solved are dealt to the segments in the order
\* of their ids.
SegmentsOf(solved, sizes) ==
    [i \in 1..Len(sizes) |->
        [id_number |-> i - 1,
         piece_ids |-> {p \in solved :
                          LET rank == Cardinality({q \in solved : q < p})
                              first == SumOf(SubSeq(sizes, 1, i - 1))
                          IN  rank \in first..(first + sizes[i] - 1)}]]

\* PaikinTalSolver.run_single_puzzle_solver and segment
\* (multipuzzle_solver.py:75-78): every piece that may be placed is placed on
\* the one board, and the board falls into segments.
RunSinglePuzzleSolverAndSegment(c, sizes) ==
    [c EXCEPT !.placer_settings = "used",
              !.solved_on = c.allowed,
              !.solved_segments = SegmentsOf(c.allowed, sizes)]

\* segment.numb_pieces
NumbPieces(segment) == Cardinality(segment.piece_ids)

\* Mutant of _select_segment_for_solver: the pieces of the segment are not
\* locked.
SelectSegmentForSolverWithoutLocking(c, i) ==
    LET selected_segment == c.solved_segments[i]
        id_number == Len(c.segments)
    IN  [c EXCEPT !.segments = Append(@, [selected_segment EXCEPT !.id_number = id_number]),
                  !.selected = @ \cup {i},
                  !.piece_id_to_segment_map =
                      [p \in DOMAIN @ \cup selected_segment.piece_ids |->
                          IF p \in selected_segment.piece_ids THEN id_number ELSE @[p]]]

\* MultiPuzzleSolver._select_segment_for_solver (multipuzzle_solver.py:184-202)
\* for the i-th solved segment: it gets the next controller-level id, and
\* each of its pieces is locked and mapped to that id.
SelectSegmentForSolver(c, i) ==
    LET selected_segment == c.solved_segments[i]
        id_number == Len(c.segments)
    IN  [c EXCEPT !.segments = Append(@, [selected_segment EXCEPT !.id_number = id_number]),
                  !.selected = @ \cup {i},
                  !.allowed = @ \ selected_segment.piece_ids,
                  !.piece_id_to_segment_map =
                      [p \in DOMAIN @ \cup selected_segment.piece_ids |->
                          IF p \in selected_segment.piece_ids THEN id_number ELSE @[p]]]

\* max([segment.numb_pieces for segment in solved_segments]) of a list that
\* is not empty.
MaxSegmentSize(solved_segments) ==
    CHOOSE m \in {NumbPieces(solved_segments[i]) : i \in DOMAIN solved_segments} :
        \A i \in DOMAIN solved_segments : NumbPieces(solved_segments[i]) <= m

\* Mutant of the loop of _process_solved_segments: a segment is selected
\* when it has more pieces than the largest.
RECURSIVE SelectFromAboveMaximum(_, _)
SelectFromAboveMaximum(c, i) ==
    IF i > Len(c.solved_segments) THEN c
    ELSE IF NumbPieces(c.solved_segments[i]) > c.max_segment_size
         THEN SelectFromAboveMaximum(SelectSegmentForSolver(c, i), i + 1)
         ELSE SelectFromAboveMaximum(c, i + 1)

\* The loop of _process_solved_segments (multipuzzle_solver.py:178-180) from
\* the i-th segment on; "/" divides two ints and rounds down.
RECURSIVE SelectFrom(_, _)
SelectFrom(c, i) ==
    IF i > Len(c.solved_segments) THEN c
    ELSE IF NumbPieces(c.solved_segments[i]) >= c.max_segment_size \div 2
         THEN SelectFrom(SelectSegmentForSolver(c, i), i + 1)
         ELSE SelectFrom(c, i + 1)

\* MultiPuzzleSolver._process_solved_segments (multipuzzle_solver.py:162-182);
\* max() of an empty list raises ValueError.
ProcessSolvedSegments(c) ==
    IF c.solved_segments = <<>> THEN [c EXCEPT !.fault = "ValueError"]
    ELSE SelectFrom([c EXCEPT !.max_segment_size = MaxSegmentSize(c.solved_segments),
                              !.selected = {}], 1)

\* MultiPuzzleSolver._export_segmentation_round_with_pickle: the whole object
\* is written to the file of its round.
ExportSegmentationRoundWithPickle(c) ==
    [c EXCEPT !.exported =
        [r \in DOMAIN @ \cup {c.numb_segmentation_rounds} |->
            IF r = c.numb_segmentation_rounds THEN [c EXCEPT !.exported = EmptyDict]
            ELSE @[r]]]

\* Mutant of the test that ends the loop: a round whose largest segment has
\* exactly the minimum size ends the loop too.
StopsSegmentingAtMinimumSize(c) ==
    \/ c.max_segment_size <= MINIMUM_SEGMENT_SIZE
    \/ c.numb_pieces - Cardinality(DOMAIN c.piece_id_to_segment_map) < MINIMUM_SEGMENT_SIZE

\* The test that ends the loop (multipuzzle_solver.py:92-93).
StopsSegmenting(c) ==
    \/ c.max_segment_size < MINIMUM_SEGMENT_SIZE
    \/ c.numb_pieces - Cardinality(DOMAIN c.piece_id_to_segment_map) < MINIMUM_SEGMENT_SIZE

\* MultiPuzzleSolver(...): the constructor call, with the class-level flag
\* _ALLOW_SEGMENTATION_ROUND_PICKLE_EXPORT as the source sets it or flipped.
NewMultiPuzzleSolver ==
    /\ ctl.pc = "none"
    /\ \E allow_export \in BOOLEAN :
        ctl' = MultiPuzzleSolverInit(numb_pieces, allow_export)
    /\ UNCHANGED solver_vars

\* run() up to the loop of _find_initial_segments
\* (multipuzzle_solver.py:46-61).
FindInitialSegments ==
    /\ ctl.pc = "new"
    /\ ctl' = [AllowPlacementOfAllPieces(ctl) EXCEPT
                  !.numb_segmentation_rounds = 0, !.skip_initial = FALSE, !.pc = "round"]
    /\ UNCHANGED solver_vars

\* Mutant of the start of a round: the restore is skipped in the round that
\* follows a resume.
BeginSegmentationRoundAsFirstWhenResumed ==
    /\ ctl.pc = "round"
    /\ LET counted == [ctl EXCEPT !.numb_segmentation_rounds = @ + 1, !.restored = FALSE]
       IN  ctl' = [(IF counted.numb_segmentation_rounds > 1 /\ ~counted.skip_initial
                    THEN RestoreInitialPlacerSettingsAndDistances(counted)
                    ELSE counted) EXCEPT !.pc = "solve"]
    /\ UNCHANGED solver_vars

\* The start of a round (multipuzzle_solver.py:64-72).
BeginSegmentationRound ==
    /\ ctl.pc = "round"
    /\ LET counted == [ctl EXCEPT !.numb_segmentation_rounds = @ + 1, !.restored = FALSE]
       IN  ctl' = [(IF counted.numb_segmentation_rounds > 1
                    THEN RestoreInitialPlacerSettingsAndDistances(counted)
                    ELSE counted) EXCEPT !.pc = "solve"]
    /\ UNCHANGED solver_vars

\* The solve of a round and its segmentation (multipuzzle_solver.py:75-78).
RunSinglePuzzleSolver ==
    /\ ctl.pc = "solve"
    /\ \E sizes \in SizeLists(Cardinality(ctl.allowed)) :
        ctl' = [RunSinglePuzzleSolverAndSegment(ctl, sizes) EXCEPT !.pc = "process"]
    /\ UNCHANGED solver_vars

\* The solve of a round halts on a failure of the placer, and the exception
\* leaves _find_initial_segments.
RunSinglePuzzleSolverRaises ==
    /\ ctl.pc = "solve"
    /\ ctl' = [ctl EXCEPT !.placer_settings = "used", !.solved_on = ctl.allowed,
                          !.fault = "InternalConsistencyError", !.pc = "fault"]
    /\ UNCHANGED solver_vars

\* The selection of a round (multipuzzle_solver.py:79).
ProcessRound ==
    /\ ctl.pc = "process"
    /\ LET c == ProcessSolvedSegments(ctl)
       IN  ctl' = [c EXCEPT !.pc = IF c.fault # "" THEN "fault" ELSE "test"]
    /\ UNCHANGED solver_vars

\* The end of a round (multipuzzle_solver.py:81-97): the round is exported
\* when the flag allows it, and the loop is left or goes round again; after
\* the loop every piece may be placed again.
EndSegmentationRound ==
    /\ ctl.pc = "test"
    /\ LET c == IF ctl.allow_export THEN ExportSegmentationRoundWithPickle(ctl) ELSE ctl
       IN  ctl' = IF StopsSegmenting(c)
                  THEN [AllowPlacementOfAllPieces(c) EXCEPT !.pc = "done"]
                  ELSE [c EXCEPT !.pc = "round"]
    /\ UNCHANGED solver_vars

\* MultiPuzzleSolver.run_imported_segmentation_round
\* (multipuzzle_solver.py:99-116) in a later process: the object exported in
\* round r is read back and _find_initial_segments(skip_initial=True) enters
\* its loop.
RunImportedSegmentationRound ==
    /\ ctl.pc \in {"done", "fault"}
    /\ ctl.resumes < MaxResumes
    /\ \E r \in DOMAIN ctl.exported :
        ctl' = [ctl.exported[r] EXCEPT !.exported = ctl.exported,
                                       !.resumes = ctl.resumes + 1,
                                       !.skip_initial = TRUE,
                                       !.pc = "round"]
    /\ UNCHANGED solver_vars

\* Before MultiPuzzleSolver(...) is called on the pieces.
InitOfController ==
    /\ numb_pieces \in ControllerSizes
    /\ cfg = DefaultConfig
    /\ oracle = NoInterPieceDistance
    /\ recalculated = FALSE
    /\ pieces = [p \in 0..(numb_pieces - 1) |->
                    [puzzle_id |-> NoneValue, location |-> <<>>, rotation |-> NoneValue]]
    /\ piece_placed = [p \in 0..(numb_pieces - 1) |-> FALSE]
    /\ numb_unplaced_pieces = NoneValue
    /\ open_locations = <<>>
    /\ piece_locations = <<>>
    /\ placed_puzzle_dimensions = <<>>
    /\ best_buddy_accuracy = <<>>
    /\ best_buddies_pool = {}
    /\ best_buddy_open_slot_heap = <<>>
    /\ numb_puzzles = NoneValue
    /\ last_best_buddy_heap_housekeeping = NoneValue
    /\ next_piece = <<>>
    /\ fault = ""
    /\ pc = "new"
    /\ ctl = NoMultiPuzzleSolver

NextOfController ==
    \/ NewMultiPuzzleSolver
    \/ FindInitialSegments
    \/ BeginSegmentationRound
    \/ RunSinglePuzzleSolver
    \/ RunSinglePuzzleSolverRaises
    \/ ProcessRound
    \/ EndSegmentationRound
    \/ RunImportedSegmentationRound

\* The multi-puzzle solver constructed and run, and its rounds resumed.
SpecOfController == InitOfController /\ [][NextOfController]_vars

\* _find_initial_segments is one sequential call, and every step of it moves
\* its position: while it has neither returned nor raised, its position
\* moves on (to the exception that every step of it can end in, or
\* elsewhere).
AdvanceController ==
    /\ ctl.pc \in {"new", "round", "solve", "process", "test"}
    /\ \/ ctl' = [ctl EXCEPT !.pc = "fault"]
       \/ ctl'.pc # ctl.pc

FairSpecOfController == SpecOfController /\ WF_ctl(AdvanceController)

\* =================================================================== claims
PieceIds == 0..(numb_pieces - 1)

\* The states of a run that has not been ended by an exception.
Running == pc \in {"loop", "selected", "done"}

\* The cells of all boards that hold piece p.
CellsHolding(p) ==
    {bc \in (1..Len(piece_locations)) \X GridCells(numb_pieces) :
        piece_locations[bc[1]][bc[2]] = p}

\* C1 (partition): when run() has ended, every piece is marked placed, has
\* exactly one board id, one of the boards created, sits in exactly one cell
\* of that board and of no other board, and no two pieces share a
\* (board, location).
C1_Partition ==
    pc = "done" =>
        /\ numb_unplaced_pieces = 0
        /\ \A p \in PieceIds :
            /\ piece_placed[p]
            /\ pieces[p].puzzle_id \in 0..(numb_puzzles - 1)
            /\ pieces[p].location # <<>>
            /\ CellsHolding(p) =
                {<<pieces[p].puzzle_id + 1, GridCell(numb_pieces, pieces[p].location)>>}
        /\ \A p, q \in PieceIds :
            (p # q /\ pieces[p].puzzle_id = pieces[q].puzzle_id)
                => pieces[p].location # pieces[q].location

\* A run of the largest dataset that ended with its pieces on two boards.
C1_Witness ==
    /\ pc = "done"
    /\ numb_pieces = NumPieces
    /\ numb_puzzles = 2
    /\ \E p, q \in PieceIds : pieces[p].puzzle_id = 0 /\ pieces[q].puzzle_id = 1

\* C2 as claimed (slot exclusivity): no two entries of the open-slot list
\* share the same (board id, location).
C2_OneEntryPerLocation ==
    \A i, j \in 1..Len(open_locations) :
        (i # j) =>
            ~(/\ open_locations[i].puzzle_id = open_locations[j].puzzle_id
              /\ open_locations[i].location = open_locations[j].location)

\* C2 as amended: no two entries of the open-slot list share the same
\* (board id, location, neighboring piece): an empty cell is listed once for
\* each placed piece next to it.
C2_OneEntryPerLocationAndNeighbor ==
    \A i, j \in 1..Len(open_locations) :
        (i # j) =>
            ~(/\ open_locations[i].puzzle_id = open_locations[j].puzzle_id
              /\ open_locations[i].location = open_locations[j].location
              /\ open_locations[i].piece_id = open_locations[j].piece_id)

\* An empty cell listed twice, once for each of two placed neighbors.
C2_Witness ==
    /\ Running
    /\ \E i, j \in 1..Len(open_locations) :
        /\ i # j
        /\ open_locations[i].puzzle_id = open_locations[j].puzzle_id
        /\ open_locations[i].location = open_locations[j].location
        /\ open_locations[i].piece_id # open_locations[j].piece_id

\* The entries of the open-slot list at (puzzle_id, location).
EntriesAt(puzzle_id, location) ==
    {i \in 1..Len(open_locations) :
        /\ open_locations[i].puzzle_id = puzzle_id
        /\ open_locations[i].location = location}

\* C3 as claimed (open-slot validity): a (board, location) is in the
\* open-slot list if and only if no placed piece occupies it and it is
\* within the board's configured bounds.
C3_ListedIffEmptyAndInBounds ==
    Running =>
        \A b \in 0..(numb_puzzles - 1) : \A location \in GridCells(numb_pieces) :
            (EntriesAt(b, location) # {})
                <=> (/\ PieceAt(Self, b, location) = UNPLACED_PIECE_ID
                     /\ CheckBoardDimensions(Self, b, location))

\* C3 as amended: every entry of the open-slot list names a cell that no
\* placed piece occupies and that lies next to the placed piece the entry
\* names, on the side it names; and every cell next to a placed piece that is
\* unoccupied and within the board's configured bounds has an entry for that
\* piece.  Cells away from every placed piece are not listed, and a listed
\* cell can have fallen outside the configured bounds since it was listed.
C3_ListedCellsAreEmptyNeighbors ==
    Running =>
        /\ \A i \in 1..Len(open_locations) :
            LET slot == open_locations[i]
            IN  /\ PieceAt(Self, slot.puzzle_id, slot.location) = UNPLACED_PIECE_ID
                /\ piece_placed[slot.piece_id]
                /\ pieces[slot.piece_id].puzzle_id = slot.puzzle_id
                /\ \E k \in 1..4 :
                    GetNeighborLocationsAndSides(pieces[slot.piece_id].location,
                                                 pieces[slot.piece_id].rotation)[k]
                        = [loc |-> slot.location, side |-> slot.open_side]
        /\ \A p \in PieceIds : \A k \in 1..4 :
            piece_placed[p] =>
                LET nb == GetNeighborLocationsAndSides(pieces[p].location, pieces[p].rotation)[k]
                IN  (InGrid(numb_pieces, nb.loc) /\ IsSlotOpen(Self, pieces[p].puzzle_id, nb.loc))
                        => \E i \in EntriesAt(pieces[p].puzzle_id, nb.loc) :
                                open_locations[i].piece_id = p

\* A board of fixed dimensions with two pieces placed, where a cell listed
\* for the first piece is now outside the bounds and still listed.
C3_Witness ==
    /\ Running
    /\ cfg.fixed_puzzle_dimensions # <<>>
    /\ numb_unplaced_pieces <= numb_pieces - 2
    /\ \E i \in 1..Len(open_locations) :
        /\ PieceAt(Self, open_locations[i].puzzle_id, open_locations[i].location)
                = UNPLACED_PIECE_ID
        /\ ~CheckBoardDimensions(Self, open_locations[i].puzzle_id, open_locations[i].location)

\* C4 (best-buddy conservation): once every piece is placed, no board has an
\* open best-buddy relation left and the wrong and correct relations of all
\* boards together number the best-buddy relations of the dataset.
C4_BestBuddyConservation ==
    (pc \in {"loop", "done"} /\ numb_unplaced_pieces = 0) =>
        /\ \A b \in 1..Len(best_buddy_accuracy) : best_buddy_accuracy[b].open = {}
        /\ GetTotalBestBuddyCount(Self) = TotalBestBuddyCount(oracle, numb_pieces)

\* A finished run whose boards hold both wrong and correct relations.
C4_Witness ==
    /\ pc = "done"
    /\ numb_unplaced_pieces = 0
    /\ TotalBestBuddyCount(oracle, numb_pieces) > 0
    /\ \E b \in 1..Len(best_buddy_accuracy) : best_buddy_accuracy[b].wrong # {}
    /\ \E b \in 1..Len(best_buddy_accuracy) : best_buddy_accuracy[b].correct # {}

\* C5 (termination): run() always ends, with zero unplaced pieces or with an
\* exception; the selection half of a loop pass leaves the count of unplaced
\* pieces alone and the placement half (a new board or a normal placement)
\* lowers it by exactly one.
C5_Termination ==
    /\ <>(pc \in {"done", "fault", "rejected"})
    /\ [](pc = "done" => numb_unplaced_pieces = 0)
    /\ [][(pc = "loop" /\ pc' = "selected")
            => numb_unplaced_pieces' = numb_unplaced_pieces]_vars
    /\ [][(pc = "selected" /\ pc' = "loop")
            => numb_unplaced_pieces' = numb_unplaced_pieces - 1]_vars

\* A run that went through the loop, spawning a board and placing pieces
\* normally, and ended with nothing left to place.
C5_Witness ==
    /\ pc = "done"
    /\ numb_unplaced_pieces = 0
    /\ numb_pieces >= 3
    /\ numb_puzzles >= 2
    /\ \E p, q \in PieceIds : p # q /\ pieces[p].puzzle_id = pieces[q].puzzle_id

\* C7 (spawn rule): a loop pass with a candidate starts a new board if and
\* only if fewer boards exist than the target and the candidate's mutual
\* compatibility is strictly below the threshold; otherwise the number of
\* boards stays and the candidate is placed at its target slot.
C7_SpawnRule ==
    [][(pc = "selected" /\ next_piece # <<>>) =>
        LET candidate == next_piece[1]
            piece_id  == candidate.next_piece_id
        IN  IF /\ numb_puzzles < cfg.numb_puzzles
               /\ candidate.mutual_compatibility < cfg.new_board_mutual_compatibility
            THEN /\ numb_puzzles' = numb_puzzles + 1
                 /\ Len(piece_locations') = Len(piece_locations) + 1
            ELSE /\ numb_puzzles' = numb_puzzles
                 /\ Len(piece_locations') = Len(piece_locations)
                 /\ pieces'[piece_id].puzzle_id = candidate.puzzle_id
                 /\ pieces'[piece_id].location = candidate.open_slot_location
                 /\ (pc' = "loop") =>
                        /\ piece_placed'[piece_id]
                        /\ piece_locations'[candidate.puzzle_id + 1]
                                [GridCell(numb_pieces, candidate.open_slot_location)]
                            = piece_id
      ]_vars

\* The board limit is reached and the last candidate, although below the
\* threshold, was placed on an existing board.
C7_Witness ==
    /\ pc = "loop"
    /\ next_piece # <<>>
    /\ numb_puzzles = 2
    /\ cfg.numb_puzzles = 2
    /\ next_piece[1].mutual_compatibility < cfg.new_board_mutual_compatibility
    /\ piece_placed[next_piece[1].next_piece_id]
    /\ pieces[next_piece[1].next_piece_id].location = next_piece[1].open_slot_location

\* C8 (board-count bound): with a target of at least one board the number of
\* boards never exceeds the target, and every placed piece's board id is one
\* of 0 .. boards - 1.
C8_BoardCountBound ==
    cfg.numb_puzzles >= 1 =>
        /\ numb_puzzles <= cfg.numb_puzzles
        /\ \A p \in PieceIds :
            piece_placed[p] => pieces[p].puzzle_id \in 0..(numb_puzzles - 1)

\* The target is reached and a candidate below the threshold is waiting.
C8_Witness ==
    /\ pc = "selected"
    /\ next_piece # <<>>
    /\ cfg.numb_puzzles >= 2
    /\ numb_puzzles = cfg.numb_puzzles
    /\ next_piece[1].mutual_compatibility < cfg.new_board_mutual_compatibility

RECURSIVE BagOfSeq(_)
BagOfSeq(seq) ==
    IF seq = <<>> THEN EmptyBag ELSE SetToBag({Head(seq)}) (+) BagOfSeq(Tail(seq))

\* The entries of the heap whose best buddy is unplaced and whose slot is
\* open.
ValidHeapEntries ==
    SelectSeq(best_buddy_open_slot_heap,
              LAMBDA e : /\ ~piece_placed[e.bb_id]
                         /\ PieceAt(Self, e.puzzle_id, e.location) = UNPLACED_PIECE_ID
                         /\ CheckBoardDimensions(Self, e.puzzle_id, e.location))

\* C10 (compaction): compacting the heap leaves exactly the entries whose
\* piece is unplaced and whose slot is open, and compacting a second time
\* with no placement in between leaves the contents as they are.
C10_Compaction ==
    pc \in {"loop", "selected"} =>
        LET once  == CleanBestBuddyHeap(Self)
            twice == CleanBestBuddyHeap(once)
        IN  /\ BagOfSeq(once.best_buddy_open_slot_heap) = BagOfSeq(ValidHeapEntries)
            /\ BagOfSeq(twice.best_buddy_open_slot_heap)
                    = BagOfSeq(once.best_buddy_open_slot_heap)

\* The next selection compacts a heap that holds entries to keep, entries of
\* a placed piece and entries of a filled slot.
C10_Witness ==
    /\ pc = "loop"
    /\ numb_unplaced_pieces > 0
    /\ best_buddies_pool # {}
    /\ CheckIfPerformBestBuddyHeapHousecleaning(Self)
    /\ ValidHeapEntries # <<>>
    /\ \E i \in 1..Len(best_buddy_open_slot_heap) :
        /\ piece_placed[best_buddy_open_slot_heap[i].bb_id]
        /\ IsSlotOpen(Self, best_buddy_open_slot_heap[i].puzzle_id,
                      best_buddy_open_slot_heap[i].location)
    /\ \E i \in 1..Len(best_buddy_open_slot_heap) :
        /\ ~piece_placed[best_buddy_open_slot_heap[i].bb_id]
        /\ ~IsSlotOpen(Self, best_buddy_open_slot_heap[i].puzzle_id,
                       best_buddy_open_slot_heap[i].location)

\* C11 (compaction and placement order): from every state of the loop of a
\* run with heap housekeeping enabled, the rest of the run places the same
\* pieces at the same (board, location, rotation), step for step, as the
\* rest of the run would with housekeeping disabled.
C11_CompactionKeepsPlacements ==
    (pc = "loop" /\ cfg.enable_best_buddy_heap_housekeeping) =>
        RunLoop(Self, TRUE) = RunLoop(Self, FALSE)

\* The heap holds an entry that pairs side bb_side of piece bb_id with the
\* open slot.
HeapHasPairing(bb_id, bb_side, slot) ==
    \E i \in 1..Len(best_buddy_open_slot_heap) :
        LET e == best_buddy_open_slot_heap[i]
        IN  /\ e.bb_id = bb_id
            /\ e.bb_side = bb_side
            /\ e.puzzle_id = slot.puzzle_id
            /\ e.location = slot.location
            /\ e.neighbor_id = slot.piece_id
            /\ e.neighbor_side = slot.open_side

\* C12 as claimed (heap completeness): between two passes of the loop, for
\* every piece in the pool, every entry of the open-slot list and every valid
\* side pairing the heap holds an entry; and when the pool is not empty and a
\* slot is open, the selection from the heap finds a valid entry.
C12_HeapComplete ==
    pc = "loop" =>
        /\ \A bb_id \in best_buddies_pool : \A i \in 1..Len(open_locations) :
            LET valid_sides == GetValidNeighborSides(cfg.puzzle_type,
                                                     open_locations[i].open_side)
            IN  \A k \in 1..Len(valid_sides) :
                    HeapHasPairing(bb_id, valid_sides[k], open_locations[i])
        /\ (/\ best_buddies_pool # {}
            /\ numb_unplaced_pieces > 0
            /\ \E i \in 1..Len(open_locations) :
                IsSlotOpen(Self, open_locations[i].puzzle_id, open_locations[i].location))
            => FindNextPiece(Self).s.fault = ""

\* C13 (heap exhaustion): when a selection starts with a non-empty pool and
\* a heap without any valid entry, the step ends the run with an exception:
\* no candidate is returned and no piece is placed.
C13_ExhaustionIsFatal ==
    [][(/\ pc = "loop"
        /\ numb_unplaced_pieces > 0
        /\ best_buddies_pool # {}
        /\ ValidHeapEntries = <<>>)
        => (/\ pc' = "fault"
            /\ fault' = "IndexError"
            /\ next_piece' = <<>>
            /\ pieces' = pieces
            /\ piece_placed' = piece_placed
            /\ piece_locations' = piece_locations
            /\ numb_unplaced_pieces' = numb_unplaced_pieces)]_vars

\* A run ended by heappop on a heap that held only stale entries: the pool
\* is not empty, pieces are left, and the heap has been popped empty.
C13_Witness ==
    /\ pc = "fault"
    /\ fault = "IndexError"
    /\ best_buddies_pool # {}
    /\ best_buddy_open_slot_heap = <<>>
    /\ next_piece = <<>>
    /\ numb_unplaced_pieces > 0
    /\ numb_unplaced_pieces < numb_pieces - 1

\* The object has no solver state: its counters are not set and no
\* inter-piece distance has been calculated.
NothingConstructed ==
    /\ numb_unplaced_pieces = NoneValue
    /\ numb_puzzles = NoneValue
    /\ oracle = NoInterPieceDistance
    /\ open_locations = <<>>
    /\ piece_locations = <<>>
    /\ best_buddy_open_slot_heap = <<>>

\* C14 (configuration errors): a constructor call with a negative target
\* board count, or with fixed dimensions and a target above 1, ends with
\* ValueError and leaves no solver state and no calculated distances.
C14_RejectedBeforeAnyWork ==
    [][(/\ pc = "new"
        /\ \/ cfg.numb_puzzles < 0
           \/ (cfg.fixed_puzzle_dimensions # <<>> /\ cfg.numb_puzzles > 1))
        => (/\ pc' = "rejected"
            /\ fault' = "ValueError"
            /\ NothingConstructed')]_vars

\* A rejected constructor call with fixed dimensions and two boards.
C14_Witness ==
    /\ pc = "rejected"
    /\ fault = "ValueError"
    /\ cfg.fixed_puzzle_dimensions # <<>>
    /\ cfg.numb_puzzles = 2
    /\ NothingConstructed

\* C15 (fixed dimensions need exactly one board): a constructor call with
\* fixed dimensions is accepted if and only if the target board count is 1.
C15_FixedDimensionsOnlyWithOneBoard ==
    [][(pc = "new" /\ cfg.fixed_puzzle_dimensions # <<>>)
        => ((pc' = "constructed") <=> (cfg.numb_puzzles = 1))]_vars

\* C16 (pool invariant): in every state, for either setting of the flag that
\* clears the pool when a board is spawned, no piece in the best-buddy pool
\* is marked placed (the pool, a dictionary keyed by piece id, holds a piece
\* at most once).
C16_PoolHoldsOnlyUnplacedPieces ==
    \A piece_id \in best_buddies_pool : ~piece_placed[piece_id]


\* C17 (fixed dimensions bound the board): when fixed board dimensions are
\* configured, in every state the extent of the placed pieces that the
\* bounding box of each board tracks (bottom_right - top_left + 1 along each
\* axis) is at most the configured size on that axis, whether the placements
\* came from the heap or from the global recomputation.
C17_ExtentWithinFixedDimensions ==
    cfg.fixed_puzzle_dimensions # <<>> =>
        \A b \in 1..Len(placed_puzzle_dimensions) :
            \A dim \in 1..Len(cfg.fixed_puzzle_dimensions) :
                placed_puzzle_dimensions[b].bottom_right[dim]
                    - placed_puzzle_dimensions[b].top_left[dim] + 1
                    <= cfg.fixed_puzzle_dimensions[dim]

\* C17 witness: fixed dimensions are configured, a piece has been placed by
\* the global recomputation after pieces placed from the heap, the board has
\* grown to the configured size along an axis, and the open-slot list still
\* holds a location whose placement would overflow that size.
C17_Witness ==
    /\ cfg.fixed_puzzle_dimensions # <<>>
    /\ pc = "loop"
    /\ recalculated
    /\ Cardinality({p \in PieceIds : piece_placed[p]}) >= 3
    /\ \E dim \in 1..2 :
            placed_puzzle_dimensions[1].bottom_right[dim]
                - placed_puzzle_dimensions[1].top_left[dim] + 1
                = cfg.fixed_puzzle_dimensions[dim]
    /\ \E k \in 1..Len(open_locations) :
            ~CheckBoardDimensions(Self, 0, open_locations[k].location)

\* The locations of the grid accessed when piece p is placed: its own and the
\* four neighboring ones read by _update_best_buddy_accuracy and _is_slot_open.
LocationsAccessedFor(p) ==
    {pieces[p].location}
    \cup {GetNeighborLocationsAndSides(pieces[p].location, pieces[p].rotation)[i].loc : i \in 1..4}

\* C18 (enough room): with the seed at the centre of the N x N grid, in every
\* state the location of every placed piece and every neighboring location
\* read while placing it has its row and its column within 0 .. N-1, for
\* every piece count N >= 1.
C18_EnoughRoom ==
    \A p \in PieceIds :
        piece_placed[p] =>
            \A location \in LocationsAccessedFor(p) :
                /\ location[1] \in 0..(numb_pieces - 1)
                /\ location[2] \in 0..(numb_pieces - 1)

\* The pairing of an unplaced piece's side with an open slot, as the global
\* recomputation scores it.
FallbackPairing(open_slot, next_piece_id, next_piece_side) ==
    [puzzle_id |-> open_slot.puzzle_id,
     open_slot_location |-> open_slot.location,
     next_piece_id |-> next_piece_id,
     next_piece_side |-> next_piece_side,
     neighbor_piece_id |-> open_slot.piece_id,
     neighbor_piece_side |-> open_slot.open_side,
     mutual_compatibility |->
        MutualCompatibility(oracle, numb_pieces, recalculated,
                            next_piece_id, next_piece_side,
                            open_slot.piece_id, open_slot.open_side),
     is_best_buddy |-> FALSE]

\* Every pairing of a valid open slot, an unplaced piece and a valid side, in
\* the order open slots, then pieces, then sides.
FallbackPairingsSlotsFirst ==
    LET unplaced_pieces == UnplacedPiecesFrom(Self, 0)
    IN  Flatten(
            [k \in 1..Len(open_locations) |->
                LET open_slot == open_locations[k]
                    valid_sides == GetValidNeighborSides(cfg.puzzle_type, open_slot.open_side)
                IN  IF ~IsSlotOpen(Self, open_slot.puzzle_id, open_slot.location) THEN <<>>
                    ELSE Flatten(
                            [j \in 1..Len(unplaced_pieces) |->
                                [i \in 1..Len(valid_sides) |->
                                    FallbackPairing(open_slot, unplaced_pieces[j],
                                                    valid_sides[i])]],
                            1)],
            1)

\* A pairing has been selected by the global recomputation: the pool is empty.
SelectedByFallback ==
    pc = "selected" /\ best_buddies_pool = {} /\ next_piece # <<>>

\* C19, as stated (global-recompute fallback): when the pool is empty, the
\* selected pairing has the maximum mutual compatibility over all valid open
\* slots, valid sides and unplaced pieces, and among the pairings that tie on
\* the maximum it is the first in the order open slots, then pieces, then
\* sides.
C19_FirstMaximumSlotsThenPieces ==
    SelectedByFallback =>
        LET pairings == FallbackPairingsSlotsFirst
        IN  \E k \in 1..Len(pairings) :
                /\ next_piece[1] = pairings[k]
                /\ \A j \in 1..Len(pairings) :
                        pairings[j].mutual_compatibility <= pairings[k].mutual_compatibility
                /\ \A j \in 1..(k - 1) :
                        pairings[j].mutual_compatibility < pairings[k].mutual_compatibility

\* The same pairings in the order pieces, then open slots, then sides.
FallbackPairingsPiecesFirst ==
    LET unplaced_pieces == UnplacedPiecesFrom(Self, 0)
    IN  Flatten(
            [j \in 1..Len(unplaced_pieces) |->
                Flatten(
                    [k \in 1..Len(open_locations) |->
                        LET open_slot == open_locations[k]
                            valid_sides == GetValidNeighborSides(cfg.puzzle_type,
                                                                 open_slot.open_side)
                        IN  IF ~IsSlotOpen(Self, open_slot.puzzle_id, open_slot.location)
                            THEN <<>>
                            ELSE [i \in 1..Len(valid_sides) |->
                                    FallbackPairing(open_slot, unplaced_pieces[j],
                                                    valid_sides[i])]],
                    1)],
            1)

\* C19, amended: when the pool is empty, the selected pairing has the maximum
\* mutual compatibility over all valid open slots, valid sides and unplaced
\* pieces, and among the pairings that tie on the maximum it is the first in
\* the order unplaced pieces (ascending id), then open slots (in the order of
\* the open-slot list), then sides.
C19_FirstMaximumPiecesThenSlots ==
    SelectedByFallback =>
        LET pairings == FallbackPairingsPiecesFirst
        IN  \E k \in 1..Len(pairings) :
                /\ next_piece[1] = pairings[k]
                /\ \A j \in 1..Len(pairings) :
                        pairings[j].mutual_compatibility <= pairings[k].mutual_compatibility
                /\ \A j \in 1..(k - 1) :
                        pairings[j].mutual_compatibility < pairings[k].mutual_compatibility

\* C19 witness: the global recomputation has selected a pairing while a
\* pairing of another piece with an open slot earlier in the list ties with
\* it on the maximum.
C19_Witness ==
    /\ SelectedByFallback
    /\ LET pairings == FallbackPairingsSlotsFirst
       IN  \E k \in 1..Len(pairings) :
            /\ next_piece[1] = pairings[k]
            /\ \E j \in 1..(k - 1) :
                /\ pairings[j].mutual_compatibility = pairings[k].mutual_compatibility
                /\ pairings[j].next_piece_id # pairings[k].next_piece_id
                /\ pairings[j].open_slot_location # pairings[k].open_slot_location

\* The buckets (board, name) in which the relation of piece p's side is
\* recorded.
BucketsHolding(p, side) ==
    {bn \in (1..Len(best_buddy_accuracy)) \X {"open", "correct", "wrong"} :
        <<p, side>> \in best_buddy_accuracy[bn[1]][bn[2]]}

\* C20 (accuracy bucket exclusivity): at any time during a run, each best
\* buddy relation (piece, side, buddy) of a placed piece is recorded in
\* exactly one bucket, and that bucket is one of open / correct / wrong of
\* the piece's own board.
C20_ExactlyOneBucket ==
    Running =>
        \A p \in PieceIds : \A side \in 0..3 :
            (piece_placed[p] /\ BestBuddyOf(oracle, numb_pieces, p, side) # <<>>) =>
                /\ Cardinality(BucketsHolding(p, side)) = 1
                /\ \A bn \in BucketsHolding(p, side) : bn[1] = pieces[p].puzzle_id + 1

\* The solver as the constructor leaves it for the pieces and arguments of
\* this run.
NewlyConstructed ==
    Constructor([Self EXCEPT
        !.pieces = [p \in PieceIds |->
                        [puzzle_id |-> NoneValue, location |-> <<>>, rotation |-> NoneValue]],
        !.piece_placed = [p \in PieceIds |-> FALSE],
        !.recalculated = FALSE,
        !.fault = ""])

ScenarioA ==
    /\ numb_pieces = BlockSide * BlockSide
    /\ cfg.numb_puzzles = 1
    /\ cfg.fixed_puzzle_dimensions = <<>>
    /\ oracle \in BlockDatasets(numb_pieces)

\* The pieces of the block lie on board 0 as in the image: piece p is
\* p \div 2 rows and p % 2 columns from where piece 0 is.
BlockIsAssembled ==
    \A p \in 0..(BlockSide * BlockSide - 1) :
        /\ piece_placed[p]
        /\ pieces[p].puzzle_id = 0
        /\ pieces[p].rotation = 0
        /\ pieces[p].location = <<pieces[0].location[1] + (p \div BlockSide),
                                 pieces[0].location[2] + (p % BlockSide)>>

\* C22 (scenario A): for the four pieces of a 2 x 2 block in which every
\* adjacent pair is a pair of mutual best buddies, with a target of one
\* board, run() raises nothing for any seed piece and ends with exactly one
\* board that holds the four pieces in the 2 x 2 arrangement, with no open
\* and no wrong best buddy.
C22_ScenarioA ==
    ScenarioA =>
        /\ pc # "fault"
        /\ pc = "done" =>
            /\ numb_puzzles = 1
            /\ BlockIsAssembled
            /\ best_buddy_accuracy[1].open = {}
            /\ best_buddy_accuracy[1].wrong = {}

\* Scenario B: the four pieces of the block and two pieces without any best
\* buddy, two boards as the target, the seed of the first board in the block,
\* and the new-board threshold above every compatibility the two outliers
\* reach (none without a recalculation, the dataset's gain after one).
ScenarioB ==
    /\ numb_pieces = BlockSide * BlockSide + 2
    /\ cfg.numb_puzzles = 2
    /\ cfg.fixed_puzzle_dimensions = <<>>
    /\ oracle \in BlockDatasets(numb_pieces)
    /\ oracle.first_seed < BlockSide * BlockSide
    /\ cfg.new_board_mutual_compatibility > oracle.recalc_gain

\* A second board exists and its seed, at the centre of the grid, is one of
\* the two outliers.
SecondBoardSeededWithOutlier ==
    /\ numb_puzzles = 2
    /\ \E p \in (BlockSide * BlockSide)..(numb_pieces - 1) :
        /\ piece_placed[p]
        /\ pieces[p].puzzle_id = 1
        /\ pieces[p].location = <<numb_pieces \div 2, numb_pieces \div 2>>

SegmentsOfSize(c, n) ==
    {i \in DOMAIN c.solved_segments : NumbPieces(c.solved_segments[i]) = n}

\* The pieces of the solved segments with the indices given.
PiecesOfSegments(c, indices) == UNION {c.solved_segments[i].piece_ids : i \in indices}

\* Scenario C: the round just processed had a largest segment of 40 pieces,
\* one segment of 38, and several segments, all of fewer than 10 pieces.
ScenarioC(c) ==
    /\ c.pc \in {"test", "round", "solve"}
    /\ c.max_segment_size = 40
    /\ Cardinality(SegmentsOfSize(c, 40)) = 1
    /\ Cardinality(SegmentsOfSize(c, 38)) = 1
    /\ Len(c.solved_segments) >= 4
    /\ \A i \in DOMAIN c.solved_segments :
        NumbPieces(c.solved_segments[i]) \in {40, 38}
        \/ NumbPieces(c.solved_segments[i]) < MINIMUM_SEGMENT_SIZE

\* C24 as stated: in scenario C only the segment of 38 pieces is selected and
\* locked, and the pieces left for the next round are all the others.
C24_OnlyThe38Selected ==
    (ScenarioC(ctl) /\ ctl.pc = "test") =>
        /\ ctl.selected = SegmentsOfSize(ctl, 38)
        /\ ctl.allowed = ctl.solved_on \ PiecesOfSegments(ctl, SegmentsOfSize(ctl, 38))

\* C24 amended: in scenario C the segment of 40 pieces and the segment of 38
\* pieces are selected and locked, no smaller segment is, and the solve of
\* the next round runs on exactly the pieces of the smaller segments.
C24_ScenarioC ==
    [][(ScenarioC(ctl) /\ ctl.pc = "solve" /\ ctl'.pc = "process") =>
        /\ ctl.selected = SegmentsOfSize(ctl, 40) \cup SegmentsOfSize(ctl, 38)
        /\ PiecesOfSegments(ctl, ctl.selected) \subseteq DOMAIN ctl.piece_id_to_segment_map
        /\ ctl'.solved_on = ctl.solved_on \ PiecesOfSegments(ctl, ctl.selected)
        /\ Cardinality(ctl'.solved_on) = Cardinality(ctl.solved_on) - 78]_vars

\* The round after scenario C is about to be solved on the ten pieces left.
C24_Witness ==
    /\ ScenarioC(ctl)
    /\ ctl.pc = "solve"
    /\ ctl.numb_segmentation_rounds = 2
    /\ Cardinality(ctl.allowed) = 10

\* C25: in every round a solved segment is selected if and only if twice its
\* size is at least the round's maximum segment size, odd maxima included.
C25_SelectedIffAtLeastHalf ==
    ctl.pc = "test" =>
        \A i \in DOMAIN ctl.solved_segments :
            i \in ctl.selected <=>
                2 * NumbPieces(ctl.solved_segments[i]) >= ctl.max_segment_size

\* The pieces locked: those of the segments selected so far.
LockedPieces(c) == UNION {c.segments[i].piece_ids : i \in DOMAIN c.segments}

\* C26: the controller runs at least one round, and after the selection of a
\* round it stops if and only if the round's maximum segment size is below 10
\* or fewer than 10 pieces remain unlocked; otherwise it starts another round.
C26_StopCondition ==
    [][/\ (ctl.pc = "new" /\ ctl'.pc # "new") =>
            ctl'.pc = "round" /\ ctl'.numb_segmentation_rounds = 0
       /\ (ctl.pc = "round" /\ ctl'.pc # "round") =>
            ctl'.pc = "solve" /\ ctl'.numb_segmentation_rounds >= 1
       /\ (ctl.pc = "test" /\ ctl'.pc # "test") =>
            LET unlocked == Cardinality((0..(ctl.numb_pieces - 1)) \ LockedPieces(ctl))
                stops == \/ ctl.max_segment_size < 10
                         \/ unlocked < 10
            IN  /\ ctl'.pc = "done" <=> stops
                /\ ctl'.pc = "round" <=> ~stops
                /\ ctl'.numb_segmentation_rounds >= 1]_vars

\* The loop has gone round again after one round and has stopped after another.
C26_Witness ==
    /\ ctl.pc = "done"
    /\ ctl.numb_segmentation_rounds = 2
    /\ ctl.resumes = 0
    /\ ctl.max_segment_size >= 10
    /\ Len(ctl.segments) = 2
    /\ \A i \in DOMAIN ctl.segments : Cardinality(ctl.segments[i].piece_ids) = 10

\* C27: a piece locked by a selected segment is not solved in any later
\* round, so the selected segments are pairwise disjoint, every piece maps to
\* the id of the one segment that holds it, and while the loop runs the
\* pieces that may be placed are the total less the size of the
\* piece-to-segment map.
C27_LockedPiecesStayOut ==
    ctl.pc \in {"round", "solve", "process", "test", "fault"} =>
        /\ \A i, j \in DOMAIN ctl.segments :
            i # j => ctl.segments[i].piece_ids \cap ctl.segments[j].piece_ids = {}
        /\ DOMAIN ctl.piece_id_to_segment_map = LockedPieces(ctl)
        /\ \A i \in DOMAIN ctl.segments :
            /\ ctl.segments[i].id_number = i - 1
            /\ \A p \in ctl.segments[i].piece_ids :
                ctl.piece_id_to_segment_map[p] = i - 1
        /\ ctl.allowed = (0..(ctl.numb_pieces - 1)) \ LockedPieces(ctl)
        /\ Cardinality(ctl.allowed) =
                ctl.numb_pieces - Cardinality(DOMAIN ctl.piece_id_to_segment_map)
        /\ (ctl.pc = "process" => ctl.solved_on \cap LockedPieces(ctl) = {})
        /\ (ctl.pc = "test" =>
                ctl.solved_on \cap LockedPieces(ctl) = PiecesOfSegments(ctl, ctl.selected))

\* A second round has been solved while pieces were locked, and it has
\* selected a segment of its own.
C27_Witness ==
    /\ ctl.pc = "test"
    /\ ctl.numb_segmentation_rounds >= 2
    /\ Len(ctl.segments) >= 3
    /\ ctl.selected # {}
    /\ ctl.allowed # {}

\* C28: on every path out of the segmentation loop, by the break or by an
\* exception, every piece may be placed again.
C28_AllPiecesReallowed ==
    ctl.pc \in {"done", "fault"} => ctl.allowed = 0..(ctl.numb_pieces - 1)

\* C29: in every round after the first the solver's default settings and
\* distances are restored before the round's solve begins, no restore is done
\* before the first round, and a round resumed with skip_initial is treated
\* the same way: every solve starts from the default settings.
C29_RestoreBeforeLaterRounds ==
    ctl.pc = "solve" =>
        /\ ctl.restored <=> ctl.numb_segmentation_rounds > 1
        /\ ctl.numb_segmentation_rounds >= 1
        /\ ctl.placer_settings = "default"

\* A round resumed from an exported round is about to be solved.
C29_Witness ==
    /\ ctl.pc = "solve"
    /\ ctl.skip_initial
    /\ ctl.resumes = 1
    /\ ctl.restored
    /\ ctl.allowed # {}

\* How often piece p occurs in a list of pieces.
Occurrences(list, p) == Cardinality({i \in DOMAIN list : list[i] = p})

\* C30: get_solved_puzzles, on any solver built with an accepted target board
\* count, returns the boards and the unassigned pieces with every piece
\* exactly once overall: in the list of its board if it has one, among the
\* unassigned otherwise.
C30_EveryPieceExactlyOnce ==
    pc \in {"constructed", "loop", "selected", "done", "fault"} =>
        LET result == GetSolvedPuzzles(Self)
        IN  /\ result.fault = ""
            /\ Len(result.solved_puzzles) = cfg.numb_puzzles
            /\ \A p \in PieceIds :
                /\ Occurrences(result.unassigned_pieces, p) =
                        (IF pieces[p].puzzle_id = NoneValue THEN 1 ELSE 0)
                /\ \A b \in DOMAIN result.solved_puzzles :
                        Occurrences(result.solved_puzzles[b], p) =
                            (IF pieces[p].puzzle_id = b - 1 THEN 1 ELSE 0)
                /\ pieces[p].puzzle_id # NoneValue =>
                        pieces[p].puzzle_id + 1 \in DOMAIN result.solved_puzzles

\* The heap entry a returned best-buddy candidate was built from.
HeapInfoOf(next_piece_info) ==
    [bb_id |-> next_piece_info.next_piece_id,
     bb_side |-> next_piece_info.next_piece_side,
     neighbor_id |-> next_piece_info.neighbor_piece_id,
     neighbor_side |-> next_piece_info.neighbor_piece_side,
     puzzle_id |-> next_piece_info.puzzle_id,
     location |-> next_piece_info.open_slot_location,
     mutual_compatibility |-> next_piece_info.mutual_compatibility]

\* A heap entry is valid: its piece is unplaced and its slot is open.
ValidHeapInfo(heap_info) ==
    /\ ~piece_placed[heap_info.bb_id]
    /\ IsSlotOpen(Self, heap_info.puzzle_id, heap_info.location)

\* How often an entry occurs in a heap.
CountInHeap(heap, heap_info) == Cardinality({i \in DOMAIN heap : heap[i] = heap_info})

\* C31: when the pool is not empty, the candidate _find_next_piece returns is
\* an entry of the heap whose piece is unplaced and whose slot is open, no
\* valid entry of the heap has a higher mutual compatibility, and every
\* entry that was discarded on the way is stale.
C31_HeapSelection ==
    [][(pc = "loop" /\ pc' = "selected" /\ best_buddies_pool # {}) =>
        /\ next_piece' # <<>>
        /\ LET returned == HeapInfoOf(next_piece'[1])
               heap == best_buddy_open_slot_heap
           IN  /\ next_piece'[1].is_best_buddy
               /\ CountInHeap(heap, returned) >= 1
               /\ ValidHeapInfo(returned)
               /\ \A i \in DOMAIN heap :
                    /\ ValidHeapInfo(heap[i]) =>
                            heap[i].mutual_compatibility <= returned.mutual_compatibility
                    /\ CountInHeap(heap, heap[i])
                            > CountInHeap(best_buddy_open_slot_heap', heap[i])
                                + (IF heap[i] = returned THEN 1 ELSE 0)
                        => ~ValidHeapInfo(heap[i])]_vars

\* A candidate has been returned, after two placements, from a heap that
\* still holds a valid entry of lower mutual compatibility.
C31_Witness ==
    /\ pc = "selected"
    /\ next_piece # <<>>
    /\ next_piece[1].is_best_buddy
    /\ \E i \in DOMAIN best_buddy_open_slot_heap :
        /\ ValidHeapInfo(best_buddy_open_slot_heap[i])
        /\ best_buddy_open_slot_heap[i].mutual_compatibility
                < next_piece[1].mutual_compatibility
    /\ Cardinality({p \in PieceIds : piece_placed[p]}) >= 2

\* Every heap entry whose candidate is unplaced refers to a pooled piece.
UnplacedCandidatesArePooled ==
    \A i \in DOMAIN best_buddy_open_slot_heap :
        ~piece_placed[best_buddy_open_slot_heap[i].bb_id] =>
            best_buddy_open_slot_heap[i].bb_id \in best_buddies_pool

\* C32: the precondition of the pool removal is never violated: every heap
\* entry whose candidate is unplaced refers to a piece in the pool, a
\* candidate tagged as a best buddy is in the pool when it is placed, and
\* the removal raises neither AssertionError nor KeyError, with the pool
\* reset on a spawn or not.
C32_RemovedPieceIsPooled ==
    /\ [](pc \in {"constructed", "loop", "selected", "done", "fault"} =>
            /\ UnplacedCandidatesArePooled
            /\ fault \notin {"AssertionError", "KeyError"})
    /\ [][(pc = "selected" /\ next_piece # <<>> /\ ~SpawnsNewBoard(Self, next_piece[1])
                /\ next_piece[1].is_best_buddy) =>
            /\ next_piece[1].next_piece_id \in best_buddies_pool
            /\ pc' = "loop" => next_piece[1].next_piece_id \notin best_buddies_pool']_vars

\* A best-buddy candidate has been placed and removed from the pool after a
\* board was spawned without resetting the pool.
C32_Witness ==
    /\ pc = "loop"
    /\ ~cfg.clear_best_buddy_heap_on_spawn
    /\ numb_puzzles >= 2
    /\ next_piece # <<>>
    /\ next_piece[1].is_best_buddy
    /\ piece_placed[next_piece[1].next_piece_id]
    /\ pieces[next_piece[1].next_piece_id].puzzle_id = numb_puzzles - 1
    /\ next_piece[1].next_piece_id \notin best_buddies_pool

\* C33: whenever run() finishes with no unplaced piece, the pool and the heap
\* have been cleared and the consistency check has passed (no open best
\* buddy on any board, bucket total equal to the dataset's total), with the
\* progress messages on or off.
C33_PostRunCheck ==
    (pc = "done" /\ numb_unplaced_pieces = 0) =>
        /\ best_buddies_pool = {}
        /\ best_buddy_open_slot_heap = <<>>
        /\ \A i \in 1..Len(best_buddy_accuracy) :
                Cardinality(best_buddy_accuracy[i].open) = 0
        /\ GetTotalBestBuddyCount(Self) = TotalBestBuddyCount(oracle, numb_pieces)

\* The pieces placed in the state, and in the next state.
PlacedPieces == {p \in PieceIds : piece_placed[p]}
PlacedPiecesAfter == {p \in PieceIds : piece_placed'[p]}

\* C34: spawning a board places exactly one piece, the seed, unrotated at the
\* centre of the grid with the previous board count as its board id; the
\* board id, location and rotation of every piece placed before, the cells
\* and bounding boxes of the earlier boards and the open-slot entries of the
\* earlier boards are unchanged, and the candidate that triggered the spawn
\* stays unplaced unless it is the seed.
C34_SpawnChangesOnlyTheNewBoard ==
    [][(pc = "selected" /\ next_piece # <<>> /\ SpawnsNewBoard(Self, next_piece[1])
            /\ pc' = "loop") =>
        /\ numb_puzzles' = numb_puzzles + 1
        /\ PlacedPieces \subseteq PlacedPiecesAfter
        /\ Cardinality(PlacedPiecesAfter \ PlacedPieces) = 1
        /\ \A seed \in PlacedPiecesAfter \ PlacedPieces :
            /\ pieces'[seed] = [puzzle_id |-> numb_puzzles,
                                location |-> <<numb_pieces \div 2, numb_pieces \div 2>>,
                                rotation |-> 0]
            /\ Len(piece_locations') = numb_puzzles + 1
            /\ \A c \in GridCells(numb_pieces) :
                piece_locations'[numb_puzzles + 1][c] # UNPLACED_PIECE_ID
                    <=> c = pieces'[seed].location
            /\ piece_placed'[next_piece[1].next_piece_id] =>
                    next_piece[1].next_piece_id = seed
        /\ \A p \in PlacedPieces : pieces'[p] = pieces[p]
        /\ SubSeq(piece_locations', 1, numb_puzzles) = piece_locations
        /\ SubSeq(placed_puzzle_dimensions', 1, numb_puzzles) = placed_puzzle_dimensions
        /\ SelectSeq(open_locations', LAMBDA slot : slot.puzzle_id < numb_puzzles)
                = open_locations]_vars

\* A second board has been spawned beside a board of two pieces that still
\* has open slots, and the candidate that triggered the spawn is unplaced.
C34_Witness ==
    /\ pc = "loop"
    /\ numb_puzzles = 2
    /\ next_piece # <<>>
    /\ ~piece_placed[next_piece[1].next_piece_id]
    /\ Cardinality({p \in PieceIds : piece_placed[p] /\ pieces[p].puzzle_id = 0}) >= 2
    /\ Cardinality({p \in PieceIds : piece_placed[p] /\ pieces[p].puzzle_id = 1}) = 1
    /\ \E i \in DOMAIN open_locations : open_locations[i].puzzle_id = 0
    /\ \E i \in DOMAIN open_locations : open_locations[i].puzzle_id = 1

\* C35: the segmentation loop terminates: the selection of every round takes
\* at least the largest segment, so the pieces that may be placed become
\* strictly fewer from round to round, the round count never exceeds the
\* number of pieces, and every call of the loop returns or raises.
C35_SegmentationTerminates ==
    /\ [][(ctl.pc = "process" /\ ctl'.pc = "test") =>
            /\ SegmentsOfSize(ctl', ctl'.max_segment_size) # {}
            /\ SegmentsOfSize(ctl', ctl'.max_segment_size) \subseteq ctl'.selected
            /\ ctl'.allowed \subseteq ctl.allowed
            /\ Cardinality(ctl'.allowed) < Cardinality(ctl.allowed)
            /\ ctl'.numb_segmentation_rounds <= ctl'.numb_pieces
            /\ ctl'.numb_segmentation_rounds <= Cardinality(LockedPieces(ctl'))]_vars
    /\ (ctl.pc \in {"round", "solve", "process", "test"})
            ~> (ctl.pc \in {"done", "fault"})

\* The loop has stopped after a second round that locked more pieces,
\* leaving some unlocked.
C35_Witness ==
    /\ ctl.pc = "done"
    /\ ctl.resumes = 0
    /\ ctl.numb_segmentation_rounds = 2
    /\ ctl.selected # {}
    /\ Len(ctl.segments) > Cardinality(ctl.selected)
    /\ Cardinality(LockedPieces(ctl)) < ctl.numb_pieces

====
